---- MODULE Spec2Model ----
(***************************************************************************)
(* TIA-SCL: the structural scanner (src/src/parser.ts, parse) and the      *)
(* diagnostic rule engine (src/src/rules.ts, runRules).                    *)
(*                                                                         *)
(* A source line is a sequence of tokens.  A token is a maximal run of     *)
(* word characters (an identifier, a keyword, a number) or one of the      *)
(* marks the scanner tests for: blank, tab, the comment marks, the two     *)
(* quotes, '#', ':', '=', ';', '{', '}'.  Every test parse makes on the    *)
(* characters of a line (indexOf, includes, startsWith, the regular        *)
(* expressions) falls on token borders for such lines, so it is modelled   *)
(* on the tokens.  Columns are not modelled beyond the constant 0 the      *)
(* scanner records.                                                        *)
(*                                                                         *)
(* The text is revealed line by line: text is the prefix of the input the  *)
(* main loop has consumed, ScanLine is one iteration of the loop on the    *)
(* next line, EndOfInput is the loop's exit (lineIdx = lines.length)       *)
(* followed by the code after the loop and by runRules on the result.      *)
(*                                                                         *)
(* The editor side: SclLinter (src/src/linter.ts) with the documents of    *)
(* the workspace, its diagnostic collection and its debounce timers, and   *)
(* the providers that answer one request on a text (src/src/formatter.ts,  *)
(* src/src/quickFixes.ts, src/src/definitionProvider.ts).  The handlers of *)
(* the extension host run one at a time, so each is one action.            *)
(***************************************************************************)
EXTENDS Integers, Sequences, FiniteSets, TLC

VARIABLES
  text,               \* lines[0 .. lineIdx-1]: the lines consumed so far
  lineIdx,            \* the loop counter of parse
  pc,                 \* "scan": in the loop; "done": parse and runRules returned
  blocks,             \* result.blocks
  variables,          \* result.variables
  usedVariables,      \* result.usedVariables
  unmatchedOpens,     \* result.unmatchedOpens
  unmatchedCloses,    \* result.unmatchedCloses
  exitOutsideLoop,    \* result.exitOutsideLoop
  blockStack,
  varStack,
  controlStack,
  currentBlock,       \* 0: null; k > 0: a reference to blocks[k]
  currentVarSection,
  inBlockComment,
  afterBegin,
  diagnostics,        \* runRules(parse(text)), once pc = "done"
  calls,              \* the calls of parse that returned, in order:
                      \* <<text, ParseResult>>
  documents,          \* vscode.workspace.textDocuments, by URI:
                      \* [isOpen, text]
  diagnosticCollection, \* by URI: <<>> (no entry) or <<the published array>>
  debounceTimers,     \* SclLinter.debounceTimers, by URI: 0 (no entry) or
                      \* the handle setTimeout returned
  timeouts,           \* the timeouts pending in the runtime: [id, uri]
  lintCalls,          \* the calls of lintDocument the last handler made
  changesSinceLint,   \* by URI: the change events since the last
                      \* lintDocument (counted up to MaxChanges)
  event,              \* the last event: <<kind, uri, changesSinceLint before>>
  reply               \* the reply to the last provider request:
                      \* <<>> or <<request, value>>

vars == <<text, lineIdx, pc, blocks, variables, usedVariables, unmatchedOpens,
          unmatchedCloses, exitOutsideLoop, blockStack, varStack, controlStack,
          currentBlock, currentVarSection, inBlockComment, afterBegin,
          diagnostics, calls, documents, diagnosticCollection,
          debounceTimers, timeouts, lintCalls, changesSinceLint, event, reply>>

\* The variables parse and runRules leave alone.
editorVars == <<documents, diagnosticCollection, debounceTimers, timeouts,
                lintCalls, changesSinceLint, event>>

\* The documents the workspace can hold.
URIs == {"a.scl", "b.scl", "c.txt"}

\* document.languageId
languageId(uri) == IF uri = "c.txt" THEN "plaintext" ELSE "scl"

-----------------------------------------------------------------------------
(* Strings of the program: case conversion on the tokens the inputs use.   *)

\* String.prototype.toUpperCase
ToUpperCase(t) ==
  CASE t = "x" -> "X" [] t = "y" -> "Y" [] t = "a" -> "A" [] t = "v" -> "V"
    [] t = "Int" -> "INT" [] t = "Bool" -> "BOOL"
    [] t = "begin" -> "BEGIN" [] t = "if" -> "IF" [] t = "exit" -> "EXIT"
    [] t = "then" -> "THEN" [] t = "of" -> "OF"
    [] t = "VersionCount" -> "VERSIONCOUNT"
    [] t = "VarConstantMax" -> "VARCONSTANTMAX"
    [] OTHER -> t

\* String.prototype.toLowerCase
ToLowerCase(t) ==
  CASE t = "X" -> "x" [] t = "Y" -> "y" [] t = "A" -> "a" [] t = "V" -> "v"
    [] t = "B" -> "b"
    [] OTHER -> t

\* The tokens that are not runs of word characters.
Marks == {" ", "\t", "(*", "*)", "//", "'", "\"", "#", ":", "=", ";", "{", "}",
          "(", ")", ","}

\* A run of word characters that starts with a digit.
Numbers == {"0", "1", "2"}

\* [A-Za-z_]\w* : a run of word characters that starts with a letter or '_'.
IsIdentifier(t) == t \notin Marks /\ t \notin Numbers

\* \w+
IsWord(t) == t \notin Marks

IsSpace(t) == t \in {" ", "\t"}

-----------------------------------------------------------------------------
(* Sequence helpers standing for the string methods parse uses.            *)

\* line.indexOf(t): the first position of token t, 0 when absent (the code's -1).
RECURSIVE IndexFrom(_, _, _)
IndexFrom(line, t, i) ==
  IF i > Len(line) THEN 0
  ELSE IF line[i] = t THEN i
  ELSE IndexFrom(line, t, i + 1)

IndexOf(line, t) == IndexFrom(line, t, 1)

Includes(line, t) == IndexOf(line, t) > 0

\* " ".repeat(n)
Spaces(n) == [i \in 1..n |-> " "]

\* line.substring(i) and line.substring(0, i), on 1-based token positions
From(line, i) == SubSeq(line, i, Len(line))
Upto(line, i) == SubSeq(line, 1, i)

\* String.prototype.trim
RECURSIVE TrimLeft(_)
TrimLeft(line) ==
  IF line # <<>> /\ IsSpace(Head(line)) THEN TrimLeft(Tail(line)) ELSE line

RECURSIVE TrimRight(_)
TrimRight(line) ==
  IF line # <<>> /\ IsSpace(line[Len(line)])
  THEN TrimRight(Upto(line, Len(line) - 1)) ELSE line

Trim(line) == TrimRight(TrimLeft(line))

UpperLine(line) == [i \in 1..Len(line) |-> ToUpperCase(line[i])]

-----------------------------------------------------------------------------
(* Keyword tables.                                                         *)

\* Object.keys(BLOCK_PAIRS), in insertion order
BLOCK_OPENS ==
  <<"FUNCTION_BLOCK", "FUNCTION", "ORGANIZATION_BLOCK", "DATA_BLOCK", "TYPE">>

\* BLOCK_PAIRS with the closers of FUNCTION_BLOCK and FUNCTION exchanged.
BLOCK_PAIRS_Exchanged(kw) ==
  CASE kw = "FUNCTION_BLOCK" -> "END_FUNCTION"
    [] kw = "FUNCTION" -> "END_FUNCTION_BLOCK"
    [] kw = "ORGANIZATION_BLOCK" -> "END_ORGANIZATION_BLOCK"
    [] kw = "DATA_BLOCK" -> "END_DATA_BLOCK"
    [] kw = "TYPE" -> "END_TYPE"

BLOCK_PAIRS(kw) ==
  CASE kw = "FUNCTION_BLOCK" -> "END_FUNCTION_BLOCK"
    [] kw = "FUNCTION" -> "END_FUNCTION"
    [] kw = "ORGANIZATION_BLOCK" -> "END_ORGANIZATION_BLOCK"
    [] kw = "DATA_BLOCK" -> "END_DATA_BLOCK"
    [] kw = "TYPE" -> "END_TYPE"

\* Object.keys(BLOCK_END_TO_OPEN), in insertion order
BLOCK_ENDS == [i \in 1..Len(BLOCK_OPENS) |-> BLOCK_PAIRS(BLOCK_OPENS[i])]

\* VAR_OPENS, in insertion order
VAR_OPENS ==
  <<"VAR_INPUT", "VAR_OUTPUT", "VAR_IN_OUT", "VAR_TEMP", "VAR_GLOBAL", "VAR",
    "STRUCT">>

CONTROL_OPENS == <<"IF", "FOR", "WHILE", "REPEAT", "CASE", "REGION">>

CONTROL_PAIRS(kw) ==
  CASE kw = "IF" -> "END_IF"
    [] kw = "FOR" -> "END_FOR"
    [] kw = "WHILE" -> "END_WHILE"
    [] kw = "REPEAT" -> "END_REPEAT"
    [] kw = "CASE" -> "END_CASE"
    [] kw = "REGION" -> "END_REGION"

\* Object.keys(CONTROL_END_TO_OPEN), in insertion order
CONTROL_ENDS == [i \in 1..Len(CONTROL_OPENS) |-> CONTROL_PAIRS(CONTROL_OPENS[i])]

CONTROL_END_TO_OPEN(closeKw) ==
  CHOOSE o \in {CONTROL_OPENS[i] : i \in 1..Len(CONTROL_OPENS)} :
    CONTROL_PAIRS(o) = closeKw

LOOP_KEYWORDS == {"FOR", "WHILE", "REPEAT"}

KEYWORD_SET ==
  {"IF", "THEN", "ELSIF", "ELSE", "END_IF",
   "FOR", "TO", "BY", "DO", "END_FOR",
   "WHILE", "END_WHILE", "REPEAT", "UNTIL", "END_REPEAT",
   "CASE", "OF", "END_CASE", "RETURN", "EXIT", "CONTINUE",
   "BEGIN", "END_VAR", "END_STRUCT", "REGION", "END_REGION",
   "TRUE", "FALSE", "AND", "OR", "XOR", "NOT", "MOD"}

isKeyword(word) == ToUpperCase(word) \in KEYWORD_SET

\* upper.startsWith(prefix), for the prefixes parse tests: the first token of
\* the line is a word that begins with the prefix.
WordsWithPrefix(prefix) ==
  CASE prefix = "VERSION" -> {"VERSION", "VERSIONCOUNT"}
    [] prefix = "VAR" -> {"VAR", "VAR_INPUT", "VAR_OUTPUT", "VAR_IN_OUT",
                          "VAR_TEMP", "VAR_GLOBAL", "VAR_CONSTANT",
                          "VARCONSTANTMAX"}
    [] prefix = "VAR_" -> {"VAR_INPUT", "VAR_OUTPUT", "VAR_IN_OUT",
                           "VAR_TEMP", "VAR_GLOBAL", "VAR_CONSTANT"}
    [] prefix = "END_" -> {BLOCK_ENDS[i] : i \in 1..Len(BLOCK_ENDS)}
                          \cup {CONTROL_ENDS[i] : i \in 1..Len(CONTROL_ENDS)}
                          \cup {"END_VAR", "END_STRUCT"}
    [] prefix = "END_STRUCT" -> {"END_STRUCT"}
    [] prefix = "EXIT" -> {"EXIT"}
    [] prefix = "ELSIF" -> {"ELSIF"}

StartsWith(upper, prefix) ==
  upper # <<>> /\ upper[1] \in WordsWithPrefix(prefix)

matchKeyword(upper, keyword) ==
  \/ upper = <<keyword>>
  \/ upper = <<keyword, ";">>
  \/ Len(upper) >= 2 /\ upper[1] = keyword /\ upper[2] \in {" ", "\t", ";"}

\* The first keyword of the table (in its order) that the line matches, "" if none:
\* the for ... of loops that break at the first match.
RECURSIVE FirstMatch(_, _, _)
FirstMatch(upper, table, i) ==
  IF i > Len(table) THEN ""
  ELSE IF matchKeyword(upper, table[i]) THEN table[i]
  ELSE FirstMatch(upper, table, i + 1)

-----------------------------------------------------------------------------
(* The helpers of parse.                                                   *)

\* line.replace(/\(\*[\s\S]*?\*\)/g, blanks): each comment opener with the
\* nearest terminator after it, left to right.
RECURSIVE stripBlockComments(_)
stripBlockComments(line) ==
  LET i == IndexOf(line, "(*")
      j == IF i = 0 THEN 0 ELSE IndexFrom(line, "*)", i + 1)
  IN IF i = 0 \/ j = 0 THEN line
     ELSE Upto(line, i - 1) \o Spaces(j - i + 1)
          \o stripBlockComments(From(line, j + 1))

\* The position of the first "//" outside a string literal, 0 when there is none.
RECURSIVE LineCommentScan(_, _, _, _)
LineCommentScan(line, i, inString, stringChar) ==
  IF i > Len(line) THEN 0
  ELSE IF inString
       THEN LineCommentScan(line, i + 1, line[i] # stringChar, stringChar)
  ELSE IF line[i] \in {"'", "\""}
       THEN LineCommentScan(line, i + 1, TRUE, line[i])
  ELSE IF line[i] = "//" THEN i
  ELSE LineCommentScan(line, i + 1, FALSE, stringChar)

lineCommentIndex(line) == LineCommentScan(line, 1, FALSE, "")

\* line.replace(/q[^q]*q/g, m => q + blanks + q) for one quote character q
RECURSIVE StripQuoted(_, _)
StripQuoted(line, q) ==
  LET i == IndexOf(line, q)
      j == IF i = 0 THEN 0 ELSE IndexFrom(line, q, i + 1)
  IN IF i = 0 \/ j = 0 THEN line
     ELSE Upto(line, i) \o Spaces(j - i - 1) \o <<q>>
          \o StripQuoted(From(line, j + 1), q)

stripStrings(line) == StripQuoted(StripQuoted(line, "'"), "\"")

\* The concatenation of the tokens of a line.
RECURSIVE Join(_)
Join(line) == IF line = <<>> THEN "" ELSE Head(line) \o Join(Tail(line))

\* line.match(/"([^"]+)"/): the first double quote followed by one character or
\* more that are no double quote, and then a double quote.
RECURSIVE ExtractNameFrom(_, _)
ExtractNameFrom(line, i) ==
  LET a == IndexFrom(line, "\"", i)
      b == IF a = 0 THEN 0 ELSE IndexFrom(line, "\"", a + 1)
  IN IF a = 0 \/ b = 0 THEN ""
     ELSE IF b > a + 1 THEN Join(SubSeq(line, a + 1, b - 1))
     ELSE ExtractNameFrom(line, b)

extractBlockName(line) == ExtractNameFrom(line, 1)

\* hashVarRegex = /#([A-Za-z_]\w*)/g over originalLine, each match lower-cased
HashVariables(originalLine) ==
  {ToLowerCase(originalLine[i + 1]) :
     i \in {k \in 1..(Len(originalLine) - 1) :
              originalLine[k] = "#" /\ IsIdentifier(originalLine[k + 1])}}

\* The skip of \s* from position i.
RECURSIVE SkipSpaces(_, _)
SkipSpaces(line, i) ==
  IF i <= Len(line) /\ IsSpace(line[i]) THEN SkipSpaces(line, i + 1) ELSE i

\* ^(\w+)\s*: : the position of the colon, 0 when the line does not start so.
DeclColon(line) ==
  IF line = <<>> \/ ~IsWord(line[1]) THEN 0
  ELSE LET c == SkipSpaces(line, 2)
       IN IF c <= Len(line) /\ line[c] = ":" THEN c ELSE 0

\* ^(\w+)\s*:\s* : the position after it, 0 when the line does not start so.
DeclHead(line) ==
  IF DeclColon(line) = 0 THEN 0 ELSE SkipSpaces(line, DeclColon(line) + 1)

\* origTrimmed.match(/^(\w+)\s*:\s*(.+?)(?:\s*:=\s*.+?)?\s*;/): whether it matches.
\* (.+?) takes one character or more after the colon, and a ';' follows it.
VarMatch(line) ==
  LET c == DeclColon(line)
  IN c # 0 /\ \E k \in (c + 2)..Len(line) : line[k] = ";"

\* Where group 2, (.+?), starts: after the blanks that follow the colon, fewer of
\* them when the match needs one for the group.
RECURSIVE TypeStart(_, _)
TypeStart(line, t) ==
  IF \E k \in (t + 1)..Len(line) : line[k] = ";" THEN t
  ELSE TypeStart(line, t - 1)

\* The end of group 2: the shortest run of one token or more from t after which
\* (?:\s*:=\s*.+?)?\s*; matches.
RECURSIVE TypeEnd(_, _)
TypeEnd(line, e) ==
  LET s == SkipSpaces(line, e + 1)
      assign == /\ s + 1 <= Len(line) /\ line[s] = ":" /\ line[s + 1] = "="
                /\ \E k \in (s + 3)..Len(line) : line[k] = ";"
      semi == s <= Len(line) /\ line[s] = ";"
  IN IF assign \/ semi \/ e >= Len(line) THEN e ELSE TypeEnd(line, e + 1)

\* varMatch[2].trim().replace(/;$/, "").trim()
VarMatchType(line) ==
  LET t == TypeStart(line, DeclHead(line))
      g == Trim(SubSeq(line, t, TypeEnd(line, t)))
      h == IF g # <<>> /\ g[Len(g)] = ";" THEN Upto(g, Len(g) - 1) ELSE g
  IN Join(Trim(h))

\* origTrimmed.match(/^(\w+)\s*:\s*(\S+)/): whether it matches.
SimpleMatch(line) ==
  LET t == DeclHead(line) IN t # 0 /\ t <= Len(line)

\* The end of (\S+) from position t.
RECURSIVE NonSpaceEnd(_, _)
NonSpaceEnd(line, e) ==
  IF e + 1 <= Len(line) /\ ~IsSpace(line[e + 1])
  THEN NonSpaceEnd(line, e + 1) ELSE e

\* simpleMatch[2].replace(/;$/, "").trim()
SimpleMatchType(line) ==
  LET t == DeclHead(line)
      g == SubSeq(line, t, NonSpaceEnd(line, t))
      h == IF g # <<>> /\ g[Len(g)] = ";" THEN Upto(g, Len(g) - 1) ELSE g
  IN Join(Trim(h))

-----------------------------------------------------------------------------
(* parse: the state of the scan as a record, and the body of the main loop. *)

ScanState ==
  [blocks |-> blocks, variables |-> variables, usedVariables |-> usedVariables,
   unmatchedCloses |-> unmatchedCloses, exitOutsideLoop |-> exitOutsideLoop,
   blockStack |-> blockStack, varStack |-> varStack,
   controlStack |-> controlStack, currentBlock |-> currentBlock,
   currentVarSection |-> currentVarSection, inBlockComment |-> inBlockComment,
   afterBegin |-> afterBegin]

StackEntry(kw, idx) == [keyword |-> kw, line |-> idx, col |-> 0]

Pop(stack) == SubSeq(stack, 1, Len(stack) - 1)

Top(stack) == stack[Len(stack)]

\* Map.prototype.set on a map kept as its entries in insertion order
MapSet(m, k, v) ==
  IF \E i \in 1..Len(m) : m[i][1] = k
  THEN [i \in 1..Len(m) |-> IF m[i][1] = k THEN <<k, v>> ELSE m[i]]
  ELSE Append(m, <<k, v>>)

\* currentBlock.hasPragma = true
Pragma(s) ==
  [s EXCEPT !.blocks[s.currentBlock].hasPragma = TRUE]

\* currentBlock.hasVersion = true
Version(s) ==
  [s EXCEPT !.blocks[s.currentBlock].hasVersion = TRUE]

\* A block opener: a new BlockDecl, which becomes the current block, and a frame.
OpenBlock(s, openKw, originalLine, idx) ==
  LET block == [type |-> openKw, name |-> extractBlockName(originalLine),
                line |-> idx, endLine |-> -1, hasVersion |-> FALSE,
                hasPragma |-> FALSE, hasBegin |-> FALSE, hasCode |-> FALSE,
                hasCaseElse |-> <<>>]
  IN [s EXCEPT !.blocks = Append(s.blocks, block),
               !.currentBlock = Len(s.blocks) + 1,
               !.blockStack = Append(s.blockStack, StackEntry(openKw, idx)),
               !.afterBegin = FALSE]

\* StampEndLine on the block declared last, current or not.
StampEndLineOnLastBlock(s, idx) ==
  IF s.blocks # <<>>
  THEN [s EXCEPT !.blocks[Len(s.blocks)].endLine = idx]
  ELSE s

\* if (currentBlock) currentBlock.endLine = lineIdx
StampEndLine(s, idx) ==
  IF s.currentBlock # 0
  THEN [s EXCEPT !.blocks[s.currentBlock].endLine = idx]
  ELSE s

\* CloseBlock that also drops the frames opened inside the block.
CloseBlockDropsInnerFrames(s, closeKw, idx) ==
  IF s.blockStack # <<>> /\ BLOCK_PAIRS(Top(s.blockStack).keyword) = closeKw
  THEN [StampEndLine(s, idx) EXCEPT !.blockStack = Pop(s.blockStack),
                                    !.varStack = <<>>,
                                    !.controlStack = <<>>,
                                    !.currentBlock = 0,
                                    !.afterBegin = FALSE]
  ELSE [s EXCEPT !.unmatchedCloses =
                   Append(s.unmatchedCloses, StackEntry(closeKw, idx))]

\* A block closer: pops the frame it matches, otherwise an unmatched close.
CloseBlock(s, closeKw, idx) ==
  IF s.blockStack # <<>> /\ BLOCK_PAIRS(Top(s.blockStack).keyword) = closeKw
  THEN [StampEndLine(s, idx) EXCEPT !.blockStack = Pop(s.blockStack),
                                    !.currentBlock = 0,
                                    !.afterBegin = FALSE]
  ELSE [s EXCEPT !.unmatchedCloses =
                   Append(s.unmatchedCloses, StackEntry(closeKw, idx))]

Begin(s) ==
  [(IF s.currentBlock # 0
    THEN [s EXCEPT !.blocks[s.currentBlock].hasBegin = TRUE] ELSE s)
   EXCEPT !.afterBegin = TRUE]

\* CloseVar that leaves no current section after the pop.
CloseVarClearsSection(s, upper, idx) ==
  IF s.varStack # <<>>
  THEN [s EXCEPT !.varStack = Pop(s.varStack), !.currentVarSection = ""]
  ELSE [s EXCEPT !.unmatchedCloses =
                   Append(s.unmatchedCloses,
                          StackEntry(IF StartsWith(upper, "END_STRUCT")
                                     THEN "END_STRUCT" ELSE "END_VAR", idx))]

\* END_VAR / END_STRUCT: pops whatever frame is on top of the section stack.
CloseVar(s, upper, idx) ==
  IF s.varStack # <<>>
  THEN [s EXCEPT !.varStack = Pop(s.varStack),
                 !.currentVarSection =
                   IF Len(s.varStack) > 1
                   THEN s.varStack[Len(s.varStack) - 1].keyword ELSE ""]
  ELSE [s EXCEPT !.unmatchedCloses =
                   Append(s.unmatchedCloses,
                          StackEntry(IF StartsWith(upper, "END_STRUCT")
                                     THEN "END_STRUCT" ELSE "END_VAR", idx))]

\* upper.includes("CONSTANT")
IncludesCONSTANT(upper) ==
  \E i \in 1..Len(upper) :
    upper[i] \in {"CONSTANT", "VAR_CONSTANT", "VARCONSTANTMAX"}

OpenVar(s, varKw, idx) ==
  [s EXCEPT !.currentVarSection = varKw,
            !.varStack = Append(s.varStack, StackEntry(varKw, idx))]

\* currentBlock?.name || ""
CurrentBlockName(s) ==
  IF s.currentBlock # 0 THEN s.blocks[s.currentBlock].name ELSE ""

\* A line inside a variable section before BEGIN: a declaration or nothing.
Declaration(s, originalLine, idx) ==
  LET origTrimmed == Trim(originalLine)
      decl(type, col) ==
        [name |-> origTrimmed[1], type |-> type,
         section |-> s.currentVarSection, block |-> CurrentBlockName(s),
         line |-> idx, col |-> col]
  IN IF VarMatch(origTrimmed)
     THEN IF ~isKeyword(origTrimmed[1])
          THEN [s EXCEPT !.variables =
                  Append(s.variables, decl(VarMatchType(origTrimmed), 0))]
          ELSE s
     ELSE IF SimpleMatch(origTrimmed) /\ ~isKeyword(origTrimmed[1])
          THEN [s EXCEPT !.variables =
                  Append(s.variables, decl(SimpleMatchType(origTrimmed), 0))]
          ELSE s

\* currentBlock.hasCode = true for a line that is neither ";" nor a closer
MarkCode(s, trimmed, upper) ==
  IF s.currentBlock # 0 /\ trimmed # <<";">> /\ ~StartsWith(upper, "END_")
  THEN [s EXCEPT !.blocks[s.currentBlock].hasCode = TRUE]
  ELSE s

OpenCase(s, idx) ==
  [(IF s.currentBlock # 0
    THEN [s EXCEPT !.blocks[s.currentBlock].hasCaseElse =
                     MapSet(@, idx, FALSE)]
    ELSE s)
   EXCEPT !.controlStack = Append(s.controlStack, StackEntry("CASE", idx))]

\* Else marking the innermost CASE on the control stack, whatever lies above it.
ElseMarksEnclosingCase(s) ==
  LET cases == {i \in 1..Len(s.controlStack) :
                  s.controlStack[i].keyword = "CASE"}
  IN IF cases # {} /\ s.currentBlock # 0
     THEN LET top == CHOOSE i \in cases : \A j \in cases : j <= i
          IN [s EXCEPT !.blocks[s.currentBlock].hasCaseElse =
                         MapSet(@, s.controlStack[top].line, TRUE)]
     ELSE s

\* ELSE with a frame on the control stack: marks the CASE on top, if it is one.
Else(s) ==
  IF Top(s.controlStack).keyword = "CASE" /\ s.currentBlock # 0
  THEN [s EXCEPT !.blocks[s.currentBlock].hasCaseElse =
                   MapSet(@, Top(s.controlStack).line, TRUE)]
  ELSE s

\* IF (but not ELSIF)
OpenIf(s, upper, idx) ==
  IF (upper = <<"IF">> \/ (Len(upper) >= 2 /\ upper[1] = "IF" /\ upper[2] = " "))
     /\ ~StartsWith(upper, "ELSIF")
  THEN [s EXCEPT !.controlStack = Append(@, StackEntry("IF", idx))]
  ELSE s

\* FOR, WHILE, REPEAT, REGION
OpenLoopOrRegion(s, upper, idx) ==
  LET kw == FirstMatch(upper, <<"FOR", "WHILE", "REPEAT", "REGION">>, 1)
  IN IF kw # ""
     THEN [s EXCEPT !.controlStack = Append(@, StackEntry(kw, idx))]
     ELSE s

\* CloseControl with the top frame compared to the closer keyword itself
\* instead of the opener the closer expects.
CloseControlComparesCloser(s, upper, idx) ==
  LET closeKw == FirstMatch(upper, CONTROL_ENDS, 1)
  IN IF closeKw = "" THEN s
     ELSE IF s.controlStack # <<>>
             /\ Top(s.controlStack).keyword = closeKw
          THEN [s EXCEPT !.controlStack = Pop(@)]
          ELSE [s EXCEPT !.unmatchedCloses =
                           Append(@, StackEntry(closeKw, idx))]

\* Control flow closers
CloseControl(s, upper, idx) ==
  LET closeKw == FirstMatch(upper, CONTROL_ENDS, 1)
  IN IF closeKw = "" THEN s
     ELSE IF s.controlStack # <<>>
             /\ Top(s.controlStack).keyword = CONTROL_END_TO_OPEN(closeKw)
          THEN [s EXCEPT !.controlStack = Pop(@)]
          ELSE [s EXCEPT !.unmatchedCloses =
                           Append(@, StackEntry(closeKw, idx))]

\* controlStack.some(e => LOOP_KEYWORDS.has(e.keyword))
InLoop(stack) ==
  \E i \in 1..Len(stack) : stack[i].keyword \in LOOP_KEYWORDS

\* EXIT / CONTINUE outside loop
ExitOrContinue(s, upper, idx) ==
  IF (matchKeyword(upper, "EXIT") \/ matchKeyword(upper, "CONTINUE"))
     /\ ~InLoop(s.controlStack)
  THEN [s EXCEPT !.exitOutsideLoop =
          Append(@, StackEntry(IF StartsWith(upper, "EXIT")
                               THEN "EXIT" ELSE "CONTINUE", idx))]
  ELSE s

\* The code section after BEGIN.
Code(s, trimmed, upper, idx) ==
  LET s1 == MarkCode(s, trimmed, upper)
  IN IF matchKeyword(upper, "CASE") THEN OpenCase(s1, idx)
     ELSE IF matchKeyword(upper, "ELSE") /\ s1.controlStack # <<>> THEN Else(s1)
     ELSE ExitOrContinue(
            CloseControl(
              OpenLoopOrRegion(OpenIf(s1, upper, idx), upper, idx),
              upper, idx),
            upper, idx)

\* Classify without the test of afterBegin before a declaration.
ClassifyDeclaresAfterBegin(s, originalLine, trimmed, upper, idx) ==
  LET openKw == FirstMatch(upper, BLOCK_OPENS, 1)
      closeKw == FirstMatch(upper, BLOCK_ENDS, 1)
      varKw == FirstMatch(upper, VAR_OPENS, 1)
  IN IF trimmed[1] = "{" /\ s.currentBlock # 0 THEN Pragma(s)
     ELSE IF StartsWith(upper, "VERSION") /\ s.currentBlock # 0 THEN Version(s)
     ELSE IF openKw # "" THEN OpenBlock(s, openKw, originalLine, idx)
     ELSE IF closeKw # "" THEN CloseBlock(s, closeKw, idx)
     ELSE IF upper = <<"BEGIN">> THEN Begin(s)
     ELSE IF matchKeyword(upper, "END_VAR") \/ matchKeyword(upper, "END_STRUCT")
          THEN CloseVar(s, upper, idx)
     ELSE IF StartsWith(upper, "VAR") /\ IncludesCONSTANT(upper)
             /\ ~StartsWith(upper, "VAR_")
          THEN OpenVar(s, "VAR_CONSTANT", idx)
     ELSE IF varKw # "" THEN OpenVar(s, varKw, idx)
     ELSE IF s.currentVarSection # "" THEN Declaration(s, originalLine, idx)
     ELSE IF s.afterBegin THEN Code(s, trimmed, upper, idx)
     ELSE s

\* The classification of a line that is not blank after stripping.
Classify(s, originalLine, trimmed, upper, idx) ==
  LET openKw == FirstMatch(upper, BLOCK_OPENS, 1)
      closeKw == FirstMatch(upper, BLOCK_ENDS, 1)
      varKw == FirstMatch(upper, VAR_OPENS, 1)
  IN IF trimmed[1] = "{" /\ s.currentBlock # 0 THEN Pragma(s)
     ELSE IF StartsWith(upper, "VERSION") /\ s.currentBlock # 0 THEN Version(s)
     ELSE IF openKw # "" THEN OpenBlock(s, openKw, originalLine, idx)
     ELSE IF closeKw # "" THEN CloseBlock(s, closeKw, idx)
     ELSE IF upper = <<"BEGIN">> THEN Begin(s)
     ELSE IF matchKeyword(upper, "END_VAR") \/ matchKeyword(upper, "END_STRUCT")
          THEN CloseVar(s, upper, idx)
     ELSE IF StartsWith(upper, "VAR") /\ IncludesCONSTANT(upper)
             /\ ~StartsWith(upper, "VAR_")
          THEN OpenVar(s, "VAR_CONSTANT", idx)
     ELSE IF varKw # "" THEN OpenVar(s, varKw, idx)
     ELSE IF s.currentVarSection # "" /\ ~s.afterBegin
          THEN Declaration(s, originalLine, idx)
     ELSE IF s.afterBegin THEN Code(s, trimmed, upper, idx)
     ELSE s

\* NextLineIdx without the increment: a continue that skips it.
NextLineIdxStuck(idx) == idx

\* The index the loop moves to after an iteration, whichever way it ended
\* (continue or the end of the body): lineIdx++.
NextLineIdx(idx) == idx + 1

\* LoopBody that scans the lines inside a comment that spans lines.
LoopBodyScansInComment(s, raw, idx) ==
  LET endIdx == IndexOf(raw, "*)")
      skip == FALSE
      line0 == IF s.inBlockComment /\ endIdx > 0
               THEN Spaces(endIdx) \o From(raw, endIdx + 1) ELSE raw
      line1 == stripBlockComments(line0)
      opens == Includes(line1, "(*")
      line2 == IF opens THEN Upto(line1, IndexOf(line1, "(*") - 1) ELSE line1
      commentIdx == lineCommentIndex(line2)
      originalLine == IF commentIdx > 0 THEN Upto(line2, commentIdx - 1)
                      ELSE line2
      line == stripStrings(originalLine)
      trimmed == Trim(line)
      upper == UpperLine(trimmed)
      s1 == [s EXCEPT !.inBlockComment = opens]
      s2 == [s1 EXCEPT !.usedVariables = @ \cup HashVariables(originalLine)]
  IN IF skip THEN s
     ELSE IF trimmed = <<>> THEN s1
     ELSE Classify(s2, originalLine, trimmed, upper, idx)

\* One iteration of the main loop on the raw line at index idx.
LoopBody(s, raw, idx) ==
  LET endIdx == IndexOf(raw, "*)")
      skip == s.inBlockComment /\ endIdx = 0
      line0 == IF s.inBlockComment /\ endIdx > 0
               THEN Spaces(endIdx) \o From(raw, endIdx + 1) ELSE raw
      line1 == stripBlockComments(line0)
      opens == Includes(line1, "(*")
      line2 == IF opens THEN Upto(line1, IndexOf(line1, "(*") - 1) ELSE line1
      commentIdx == lineCommentIndex(line2)
      originalLine == IF commentIdx > 0 THEN Upto(line2, commentIdx - 1)
                      ELSE line2
      line == stripStrings(originalLine)
      trimmed == Trim(line)
      upper == UpperLine(trimmed)
      s1 == [s EXCEPT !.inBlockComment = opens]
      s2 == [s1 EXCEPT !.usedVariables = @ \cup HashVariables(originalLine)]
  IN IF skip THEN s
     ELSE IF trimmed = <<>> THEN s1
     ELSE Classify(s2, originalLine, trimmed, upper, idx)

-----------------------------------------------------------------------------
(* runRules: the rules, each from a ParseResult r to a list of diagnostics. *)

Diagnostic(line, col, message, severity, code) ==
  [line |-> line, col |-> col, message |-> message, severity |-> severity,
   code |-> code]

\* [f(e) for e of seq if keep(e)]
MapFilter(seq, keep(_), f(_)) ==
  LET kept == SelectSeq(seq, keep)
  IN [i \in 1..Len(kept) |-> f(kept[i])]

\* The concatenation of a sequence of sequences.
RECURSIVE Flatten(_)
Flatten(seqs) ==
  IF seqs = <<>> THEN <<>> ELSE Head(seqs) \o Flatten(Tail(seqs))

ToSet(seq) == {seq[i] : i \in 1..Len(seq)}

\* keyword.startsWith(prefix) for the closer keywords parse records
KeywordsWithPrefix(prefix) ==
  CASE prefix = "END_FUNCTION" -> {"END_FUNCTION", "END_FUNCTION_BLOCK"}
    [] prefix = "END_DATA" -> {"END_DATA_BLOCK"}
    [] prefix = "END_ORGANIZATION" -> {"END_ORGANIZATION_BLOCK"}
    [] prefix = "END_TYPE" -> {"END_TYPE"}
    [] prefix = "END_" -> WordsWithPrefix("END_")
    [] prefix = "VAR" -> WordsWithPrefix("VAR")

\* entry.keyword.replace("END_", "")
WithoutEND(closeKw) ==
  IF closeKw \in ToSet(CONTROL_ENDS) THEN CONTROL_END_TO_OPEN(closeKw)
  ELSE closeKw

\* SCL001
ruleUnmatchedControlFlow(r) ==
  MapFilter(r.unmatchedOpens,
            LAMBDA e : e.keyword \in ToSet(CONTROL_OPENS),
            LAMBDA e : Diagnostic(e.line, 0,
                         <<"'", e.keyword, "' has no matching 'END_",
                           e.keyword, "'">>, "Error", "SCL001"))
  \o
  MapFilter(r.unmatchedCloses,
            LAMBDA e : /\ e.keyword \in KeywordsWithPrefix("END_")
                       /\ e.keyword \notin KeywordsWithPrefix("END_FUNCTION")
                       /\ e.keyword \notin KeywordsWithPrefix("END_DATA")
                       /\ e.keyword \notin KeywordsWithPrefix("END_ORGANIZATION")
                       /\ e.keyword \notin KeywordsWithPrefix("END_TYPE")
                       /\ e.keyword # "END_VAR"
                       /\ e.keyword # "END_STRUCT",
            LAMBDA e : Diagnostic(e.line, 0,
                         <<"'", e.keyword, "' without matching '",
                           WithoutEND(e.keyword), "'">>, "Error", "SCL001"))

\* ruleUnmatchedVarSections with the keyword test of the closers left out: every
\* unmatched close is reported as SCL002.
ruleUnmatchedVarSectionsEveryClose(r) ==
  MapFilter(r.unmatchedOpens,
            LAMBDA e : e.keyword \in KeywordsWithPrefix("VAR")
                       \/ e.keyword = "STRUCT",
            LAMBDA e : Diagnostic(e.line, 0,
                         <<"'", e.keyword, "' has no matching '",
                           IF e.keyword = "STRUCT" THEN "END_STRUCT"
                           ELSE "END_VAR", "'">>, "Error", "SCL002"))
  \o
  MapFilter(r.unmatchedCloses,
            LAMBDA e : TRUE,
            LAMBDA e : Diagnostic(e.line, 0,
                         <<"'", e.keyword,
                           "' without matching opening declaration">>,
                         "Error", "SCL002"))

\* SCL002
ruleUnmatchedVarSections(r) ==
  MapFilter(r.unmatchedOpens,
            LAMBDA e : e.keyword \in KeywordsWithPrefix("VAR")
                       \/ e.keyword = "STRUCT",
            LAMBDA e : Diagnostic(e.line, 0,
                         <<"'", e.keyword, "' has no matching '",
                           IF e.keyword = "STRUCT" THEN "END_STRUCT"
                           ELSE "END_VAR", "'">>, "Error", "SCL002"))
  \o
  MapFilter(r.unmatchedCloses,
            LAMBDA e : e.keyword = "END_VAR" \/ e.keyword = "END_STRUCT",
            LAMBDA e : Diagnostic(e.line, 0,
                         <<"'", e.keyword,
                           "' without matching opening declaration">>,
                         "Error", "SCL002"))

\* SCL003
ruleUnmatchedBlocks(r) ==
  MapFilter(r.unmatchedOpens,
            LAMBDA e : e.keyword \in ToSet(BLOCK_OPENS),
            LAMBDA e : Diagnostic(e.line, 0,
                         <<"'", e.keyword, "' has no matching 'END_",
                           e.keyword, "'">>, "Error", "SCL003"))
  \o
  MapFilter(r.unmatchedCloses,
            LAMBDA e : e.keyword \in ToSet(BLOCK_ENDS),
            LAMBDA e : Diagnostic(e.line, 0,
                         <<"'", e.keyword,
                           "' without matching block declaration">>,
                         "Error", "SCL003"))

\* The keys of a Map in insertion order: the values of key(e), e of seq, each
\* at its first occurrence.
RECURSIVE KeysInOrder(_, _, _)
KeysInOrder(seq, key(_), seen) ==
  IF seq = <<>> THEN <<>>
  ELSE IF key(Head(seq)) \in seen THEN KeysInOrder(Tail(seq), key, seen)
  ELSE <<key(Head(seq))>>
       \o KeysInOrder(Tail(seq), key, seen \cup {key(Head(seq))})

\* SCL004
ruleDuplicateVariables(r) ==
  LET byBlock == KeysInOrder(r.variables, LAMBDA v : v.block, {})
      inBlock(b) == SelectSeq(r.variables, LAMBDA v : v.block = b)
      names(b) == KeysInOrder(inBlock(b), LAMBDA v : ToLowerCase(v.name), {})
      locations(b, n) ==
        SelectSeq(inBlock(b), LAMBDA v : ToLowerCase(v.name) = n)
      dups(b, n) ==
        [i \in 1..(Len(locations(b, n)) - 1) |->
           Diagnostic(locations(b, n)[i + 1].line, locations(b, n)[i + 1].col,
                      <<"Duplicate variable '", n, "' (first declared on line ",
                        locations(b, n)[1].line + 1, ")">>, "Error", "SCL004")]
      ofBlock(b) == Flatten([j \in 1..Len(names(b)) |-> dups(b, names(b)[j])])
  IN Flatten([k \in 1..Len(byBlock) |-> ofBlock(byBlock[k])])

\* SCL005
ruleExitOutsideLoop(r) ==
  [i \in 1..Len(r.exitOutsideLoop) |->
     Diagnostic(r.exitOutsideLoop[i].line, 0,
                <<"'", r.exitOutsideLoop[i].keyword,
                  "' used outside of a FOR/WHILE/REPEAT loop">>,
                "Error", "SCL005")]

\* result.blocks.find(b => b.name === name): its index, 0 when there is none
RECURSIVE FindBlockFrom(_, _, _)
FindBlockFrom(blks, name, i) ==
  IF i > Len(blks) THEN 0
  ELSE IF blks[i].name = name THEN i
  ELSE FindBlockFrom(blks, name, i + 1)

FindBlock(blks, name) == FindBlockFrom(blks, name, 1)

\* SCL101
ruleUnusedVariables(r) ==
  MapFilter(r.variables,
            LAMBDA v :
              LET b == FindBlock(r.blocks, v.block)
              IN /\ ~(b # 0 /\ r.blocks[b].type \in {"DATA_BLOCK", "TYPE"})
                 /\ v.section # "VAR_OUTPUT"
                 /\ ToLowerCase(v.name) \notin r.usedVariables,
            LAMBDA v : Diagnostic(v.line, v.col,
                         <<"Variable '", v.name,
                           "' is declared but never used">>,
                         "Warning", "SCL101"))

\* block.name || block.type
NameOrType(block) == IF block.name # "" THEN block.name ELSE block.type

\* SCL102
ruleMissingVersion(r) ==
  MapFilter(r.blocks,
            LAMBDA b : ~b.hasVersion,
            LAMBDA b : Diagnostic(b.line, 0,
                         <<"Block '", NameOrType(b),
                           "' has no VERSION declaration">>,
                         "Warning", "SCL102"))

\* SCL103
ruleMissingPragma(r) ==
  MapFilter(r.blocks,
            LAMBDA b : b.type # "TYPE" /\ ~b.hasPragma,
            LAMBDA b : Diagnostic(b.line, 0,
                         <<"Block '", NameOrType(b),
                           "' has no { S7_Optimized_Access } pragma">>,
                         "Warning", "SCL103"))

\* SCL104
ruleCaseWithoutElse(r) ==
  Flatten([k \in 1..Len(r.blocks) |->
    MapFilter(r.blocks[k].hasCaseElse,
              LAMBDA e : ~e[2],
              LAMBDA e : Diagnostic(e[1], 0,
                           <<"CASE statement has no ELSE branch">>,
                           "Warning", "SCL104"))])

\* SCL105
ruleEmptyBlock(r) ==
  MapFilter(r.blocks,
            LAMBDA b : /\ b.type \notin {"DATA_BLOCK", "TYPE"}
                       /\ b.hasBegin /\ ~b.hasCode,
            LAMBDA b : Diagnostic(b.line, 0,
                         <<"Block '", NameOrType(b),
                           "' has an empty BEGIN section">>,
                         "Warning", "SCL105"))

\* prefixMap[block.type], "" when the type has no entry
PrefixMap(type) ==
  CASE type = "FUNCTION_BLOCK" -> "FB_"
    [] type = "FUNCTION" -> "FC_"
    [] type = "DATA_BLOCK" -> "DB_"
    [] OTHER -> ""

\* name.startsWith(prefix) for the block names the inputs use
NameStartsWith(name, prefix) ==
  name \in (CASE prefix = "FB_" -> {"FB_A"}
              [] prefix = "FC_" -> {"FC_A"}
              [] prefix = "DB_" -> {"DB_A"}
              [] prefix = "UDT_" -> {"UDT_A"})

\* ruleNamingConvention with the severity of the warnings.
ruleNamingConventionAsWarning(r) ==
  MapFilter(r.blocks,
            LAMBDA b : /\ PrefixMap(b.type) # "" /\ b.name # ""
                       /\ ~NameStartsWith(b.name, PrefixMap(b.type))
                       /\ ~NameStartsWith(b.name, "UDT_"),
            LAMBDA b : Diagnostic(b.line, 0,
                         <<"Block '", b.name,
                           "' does not follow naming convention '",
                           PrefixMap(b.type), "...'">>, "Warning", "SCL201"))

\* SCL201
ruleNamingConvention(r) ==
  MapFilter(r.blocks,
            LAMBDA b : /\ PrefixMap(b.type) # "" /\ b.name # ""
                       /\ ~NameStartsWith(b.name, PrefixMap(b.type))
                       /\ ~NameStartsWith(b.name, "UDT_"),
            LAMBDA b : Diagnostic(b.line, 0,
                         <<"Block '", b.name,
                           "' does not follow naming convention '",
                           PrefixMap(b.type), "...'">>, "Hint", "SCL201"))

runRules(r) ==
  ruleUnmatchedControlFlow(r) \o ruleUnmatchedVarSections(r)
  \o ruleUnmatchedBlocks(r) \o ruleDuplicateVariables(r)
  \o ruleExitOutsideLoop(r) \o ruleUnusedVariables(r)
  \o ruleMissingVersion(r) \o ruleMissingPragma(r)
  \o ruleCaseWithoutElse(r) \o ruleEmptyBlock(r)
  \o ruleNamingConvention(r)

-----------------------------------------------------------------------------
(* The state machine.                                                      *)

\* FreshState with the in-comment flag of the call before: the flag declared
\* outside parse.
FreshStateKeepsCommentFlag(prev) ==
  [blocks |-> <<>>, variables |-> <<>>, usedVariables |-> {},
   unmatchedOpens |-> <<>>, unmatchedCloses |-> <<>>, exitOutsideLoop |-> <<>>,
   blockStack |-> <<>>, varStack |-> <<>>, controlStack |-> <<>>,
   currentBlock |-> 0, currentVarSection |-> "",
   inBlockComment |-> prev.inBlockComment, afterBegin |-> FALSE]

\* The result and the locals parse sets up on entry; prev is the state the call
\* before left behind, of which parse reads nothing.
FreshState(prev) ==
  [blocks |-> <<>>, variables |-> <<>>, usedVariables |-> {},
   unmatchedOpens |-> <<>>, unmatchedCloses |-> <<>>, exitOutsideLoop |-> <<>>,
   blockStack |-> <<>>, varStack |-> <<>>, controlStack |-> <<>>,
   currentBlock |-> 0, currentVarSection |-> "",
   inBlockComment |-> FALSE, afterBegin |-> FALSE]

\* The entry of parse from the state s.
Enter(s) ==
  /\ blocks = s.blocks
  /\ variables = s.variables
  /\ usedVariables = s.usedVariables
  /\ unmatchedOpens = s.unmatchedOpens
  /\ unmatchedCloses = s.unmatchedCloses
  /\ exitOutsideLoop = s.exitOutsideLoop
  /\ blockStack = s.blockStack
  /\ varStack = s.varStack
  /\ controlStack = s.controlStack
  /\ currentBlock = s.currentBlock
  /\ currentVarSection = s.currentVarSection
  /\ inBlockComment = s.inBlockComment
  /\ afterBegin = s.afterBegin

\* No document is open and the linter was not constructed.
EditorIdle ==
  /\ documents = [u \in URIs |-> [isOpen |-> FALSE, text |-> <<>>]]
  /\ diagnosticCollection = [u \in URIs |-> <<>>]
  /\ debounceTimers = [u \in URIs |-> 0]
  /\ timeouts = {}
  /\ lintCalls = <<>>
  /\ changesSinceLint = [u \in URIs |-> 0]
  /\ event = <<>>

Init ==
  /\ text = <<>>
  /\ lineIdx = 0
  /\ pc = "scan"
  /\ Enter(FreshState([inBlockComment |-> FALSE]))
  /\ diagnostics = <<>>
  /\ calls = <<>>
  /\ EditorIdle
  /\ reply = <<>>

\* One iteration of the for loop of parse, on the next line of the input.
ScanLine(raw) ==
  /\ pc = "scan"
  /\ LET n == LoopBody(ScanState, raw, lineIdx)
     IN /\ blocks' = n.blocks
        /\ variables' = n.variables
        /\ usedVariables' = n.usedVariables
        /\ unmatchedCloses' = n.unmatchedCloses
        /\ exitOutsideLoop' = n.exitOutsideLoop
        /\ blockStack' = n.blockStack
        /\ varStack' = n.varStack
        /\ controlStack' = n.controlStack
        /\ currentBlock' = n.currentBlock
        /\ currentVarSection' = n.currentVarSection
        /\ inBlockComment' = n.inBlockComment
        /\ afterBegin' = n.afterBegin
  /\ text' = Append(text, raw)
  /\ lineIdx' = NextLineIdx(lineIdx)
  /\ UNCHANGED <<pc, unmatchedOpens, diagnostics, calls, editorVars, reply>>

\* RemainingOpens with the control-flow frames first.
RemainingOpensControlFirst == controlStack \o varStack \o blockStack

\* result.unmatchedOpens.push(...blockStack, ...varStack, ...controlStack)
RemainingOpens == blockStack \o varStack \o controlStack

\* The ParseResult parse returns.
ParseResult(opens) ==
  [blocks |-> blocks, variables |-> variables, usedVariables |-> usedVariables,
   unmatchedOpens |-> opens, unmatchedCloses |-> unmatchedCloses,
   exitOutsideLoop |-> exitOutsideLoop]

\* The input ends: the loop exits, parse returns and runRules runs on the result.
EndOfInput ==
  /\ pc = "scan"
  /\ unmatchedOpens' = unmatchedOpens \o RemainingOpens
  /\ diagnostics' = runRules(ParseResult(unmatchedOpens \o RemainingOpens))
  /\ calls' = Append(calls,
                     <<text, ParseResult(unmatchedOpens \o RemainingOpens)>>)
  /\ pc' = "done"
  /\ UNCHANGED <<text, lineIdx, blocks, variables, usedVariables,
                 unmatchedCloses, exitOutsideLoop, blockStack, varStack,
                 controlStack, currentBlock, currentVarSection, inBlockComment,
                 afterBegin, editorVars, reply>>

\* parse is called again, on a new text, after a call that returned.
ParseAgain ==
  /\ pc = "done"
  /\ LET s == FreshState(ScanState)
     IN /\ blocks' = s.blocks
        /\ variables' = s.variables
        /\ usedVariables' = s.usedVariables
        /\ unmatchedOpens' = s.unmatchedOpens
        /\ unmatchedCloses' = s.unmatchedCloses
        /\ exitOutsideLoop' = s.exitOutsideLoop
        /\ blockStack' = s.blockStack
        /\ varStack' = s.varStack
        /\ controlStack' = s.controlStack
        /\ currentBlock' = s.currentBlock
        /\ currentVarSection' = s.currentVarSection
        /\ inBlockComment' = s.inBlockComment
        /\ afterBegin' = s.afterBegin
  /\ text' = <<>>
  /\ lineIdx' = 0
  /\ pc' = "scan"
  /\ diagnostics' = <<>>
  /\ UNCHANGED <<calls, editorVars, reply>>

-----------------------------------------------------------------------------
(* Input lines.                                                            *)

Named(kw, name) == <<kw, " ", "\"", name, "\"">>

LineIf == <<"IF", " ", "#", "a", " ", "THEN">>
LineFor == <<"FOR", " ", "#", "a", " ", ":", "=", " ", "1", " ", "TO", " ", "2",
             " ", "DO">>
LineCase == <<"CASE", " ", "#", "a", " ", "OF">>
LineDeclX == <<"x", " ", ":", " ", "Int", ";">>
LineUseX == <<"#", "X", " ", ":", "=", " ", "1", ";">>

\* Blocks, variable sections and control flow around BEGIN.
NestLines ==
  {Named("FUNCTION_BLOCK", "A"), <<"END_FUNCTION_BLOCK">>,
   <<"VAR">>, <<"END_VAR">>, <<"BEGIN">>,
   LineIf, <<"END_IF", ";">>, LineFor, <<"END_FOR", ";">>}

MaxNestLines == 4

NextNest ==
  \/ \E raw \in NestLines : Len(text) < MaxNestLines /\ ScanLine(raw)
  \/ EndOfInput

Spec == Init /\ [][NextNest]_vars

\* Blocks and variable sections.
SectionLines ==
  {Named("FUNCTION_BLOCK", "A"), <<"END_FUNCTION_BLOCK">>,
   <<"VAR">>, <<"STRUCT">>, <<"END_VAR">>, <<"END_STRUCT">>, LineDeclX}

MaxSectionLines == 4

NextSections ==
  \/ \E raw \in SectionLines : Len(text) < MaxSectionLines /\ ScanLine(raw)
  \/ EndOfInput

SpecSections == Init /\ [][NextSections]_vars

\* Blank lines, comments that span lines and line comments among code lines.
CommentLines ==
  {<<>>, <<"(*", " ", "VAR">>, <<"x", " ", "*)", " ", "VAR">>,
   <<"//", " ", "BEGIN">>, Named("FUNCTION_BLOCK", "A"),
   <<"END_FUNCTION_BLOCK">>, LineDeclX}

MaxCommentLines == 4

NextComments ==
  \/ \E raw \in CommentLines : Len(text) < MaxCommentLines /\ ScanLine(raw)
  \/ EndOfInput

\* The input is finite: the loop reaches its end.
SpecComments == Init /\ [][NextComments]_vars /\ WF_vars(EndOfInput)

\* Every block opener and closer.
BlockLines ==
  {Named(BLOCK_OPENS[i], "A") : i \in 1..Len(BLOCK_OPENS)}
  \cup {<<BLOCK_ENDS[i]>> : i \in 1..Len(BLOCK_ENDS)}

MaxBlockLines == 4

NextBlocks ==
  \/ \E raw \in BlockLines : Len(text) < MaxBlockLines /\ ScanLine(raw)
  \/ EndOfInput

SpecBlocks == Init /\ [][NextBlocks]_vars

\* Declarations among blocks that may nest.
OwnerLines ==
  {Named("FUNCTION_BLOCK", "A"), Named("TYPE", "B"), <<"END_FUNCTION_BLOCK">>,
   <<"END_TYPE">>, <<"VAR">>, LineDeclX}

MaxOwnerLines == 5

NextOwners ==
  \/ \E raw \in OwnerLines : Len(text) < MaxOwnerLines /\ ScanLine(raw)
  \/ EndOfInput

SpecOwners == Init /\ [][NextOwners]_vars

\* Loops and EXIT in the executable sections of blocks.
ExitLines ==
  {Named("FUNCTION_BLOCK", "A"), <<"END_FUNCTION_BLOCK">>, <<"BEGIN">>,
   LineFor, <<"END_FOR", ";">>, <<"EXIT", ";">>}

MaxExitLines == 5

NextExit ==
  \/ \E raw \in ExitLines : Len(text) < MaxExitLines /\ ScanLine(raw)
  \/ EndOfInput

SpecExit == Init /\ [][NextExit]_vars

\* CASE, IF and ELSE in the executable section of one block: the block opener
\* and BEGIN come first.
CaseLines ==
  {LineCase, <<"ELSE">>, <<"END_CASE", ";">>, LineIf, <<"END_IF", ";">>,
   <<"END_FUNCTION_BLOCK">>}

MaxCaseLines == 7

NextCase ==
  \/ Len(text) = 0 /\ ScanLine(Named("FUNCTION_BLOCK", "A"))
  \/ Len(text) = 1 /\ ScanLine(<<"BEGIN">>)
  \/ \E raw \in CaseLines :
       Len(text) >= 2 /\ Len(text) < MaxCaseLines /\ ScanLine(raw)
  \/ EndOfInput

SpecCase == Init /\ [][NextCase]_vars

\* Declarations and references in blocks that follow one another: the two
\* blocks have the same name.
ScopeLines ==
  {Named("FUNCTION_BLOCK", "A"), Named("DATA_BLOCK", "A"),
   <<"END_FUNCTION_BLOCK">>, <<"END_DATA_BLOCK">>, <<"VAR">>, <<"VAR_OUTPUT">>,
   LineDeclX, LineUseX}

MaxScopeLines == 5

-----------------------------------------------------------------------------
(* The vocabulary of the properties: what the input text is, read from the *)
(* text alone.  Positions are 1-based: position i is line index i - 1.     *)

\* The keyword a line starts with, by the keyword rule: the trimmed line,
\* ignoring case, is the keyword alone or the keyword followed by a blank, a
\* tab or a semicolon.
LineKeyword(raw) ==
  LET t == UpperLine(Trim(raw))
  IN IF t = <<>> THEN ""
     ELSE IF Len(t) = 1 \/ t[2] \in {" ", "\t", ";"} THEN t[1]
     ELSE ""

BlockOpeners ==
  {"FUNCTION_BLOCK", "FUNCTION", "ORGANIZATION_BLOCK", "DATA_BLOCK", "TYPE"}

SectionOpeners ==
  {"VAR", "VAR_INPUT", "VAR_OUTPUT", "VAR_IN_OUT", "VAR_TEMP", "VAR_GLOBAL",
   "STRUCT"}

ControlOpeners == {"IF", "FOR", "WHILE", "REPEAT", "CASE", "REGION"}

Loops == {"FOR", "WHILE", "REPEAT"}

\* The designated closer of an opener.
CloserOf(kw) ==
  CASE kw = "FUNCTION_BLOCK" -> "END_FUNCTION_BLOCK"
    [] kw = "FUNCTION" -> "END_FUNCTION"
    [] kw = "ORGANIZATION_BLOCK" -> "END_ORGANIZATION_BLOCK"
    [] kw = "DATA_BLOCK" -> "END_DATA_BLOCK"
    [] kw = "TYPE" -> "END_TYPE"
    [] kw = "STRUCT" -> "END_STRUCT"
    [] kw \in SectionOpeners \ {"STRUCT"} -> "END_VAR"
    [] kw = "IF" -> "END_IF"
    [] kw = "FOR" -> "END_FOR"
    [] kw = "WHILE" -> "END_WHILE"
    [] kw = "REPEAT" -> "END_REPEAT"
    [] kw = "CASE" -> "END_CASE"
    [] kw = "REGION" -> "END_REGION"

ClosersOf(family) == {CloserOf(kw) : kw \in family}

IsOpener(raw, family) == LineKeyword(raw) \in family
IsCloser(raw, family) == LineKeyword(raw) \in ClosersOf(family)

\* The bracket matching of one family over lines from..to of the text: the
\* pairs <<opener, closer>> of positions, the closers that match no open
\* opener (stray), and the openers left open, innermost last.
RECURSIVE MatchFrom(_, _, _, _, _, _)
MatchFrom(txt, family, i, to, open, acc) ==
  IF i > to THEN [pairs |-> acc.pairs, stray |-> acc.stray, open |-> open]
  ELSE IF IsOpener(txt[i], family)
       THEN MatchFrom(txt, family, i + 1, to, Append(open, i), acc)
  ELSE IF IsCloser(txt[i], family)
       THEN IF open # <<>>
               /\ CloserOf(LineKeyword(txt[open[Len(open)]]))
                    = LineKeyword(txt[i])
            THEN MatchFrom(txt, family, i + 1, to,
                           SubSeq(open, 1, Len(open) - 1),
                           [acc EXCEPT !.pairs = @ \cup {<<open[Len(open)], i>>}])
            ELSE MatchFrom(txt, family, i + 1, to, open,
                           [acc EXCEPT !.stray = @ \cup {i}])
  ELSE MatchFrom(txt, family, i + 1, to, open, acc)

Matching(txt, family) ==
  MatchFrom(txt, family, 1, Len(txt), <<>>, [pairs |-> {}, stray |-> {}])

\* Every opener of the family has its closer, in the correct order.
BalancedFamily(txt, family) ==
  Matching(txt, family).stray = {} /\ Matching(txt, family).open = <<>>

Balanced(txt) ==
  /\ BalancedFamily(txt, BlockOpeners)
  /\ BalancedFamily(txt, SectionOpeners)
  /\ BalancedFamily(txt, ControlOpeners)

IsBegin(raw) == UpperLine(Trim(raw)) = <<"BEGIN">>

IsBlockLine(raw) == IsOpener(raw, BlockOpeners) \/ IsCloser(raw, BlockOpeners)

\* Position i lies in an executable section: a BEGIN line precedes it with no
\* block opener or closer in between.
InCode(txt, i) ==
  \E j \in 1..(i - 1) :
    IsBegin(txt[j]) /\ \A k \in (j + 1)..(i - 1) : ~IsBlockLine(txt[k])

\* Each control-flow opener lies on the same side of BEGIN as its closer.
ControlPairsInOneSection(txt) ==
  \A p \in Matching(txt, ControlOpeners).pairs :
    InCode(txt, p[1]) = InCode(txt, p[2])

\* The blocks opened and not yet closed before position i, innermost last.
OpenBlocksAt(txt, i) ==
  MatchFrom(txt, BlockOpeners, 1, i - 1, <<>>,
            [pairs |-> {}, stray |-> {}]).open

\* The position of the opener of the innermost construct of the family that is
\* open at position i, 0 when none is.
OpenerAt(txt, family, i) ==
  LET open == MatchFrom(txt, family, 1, i - 1, <<>>,
                        [pairs |-> {}, stray |-> {}]).open
  IN IF open = <<>> THEN 0 ELSE open[Len(open)]

\* The keyword of that opener, "" when there is none.
OpenKeywordAt(txt, family, i) ==
  IF OpenerAt(txt, family, i) = 0 THEN ""
  ELSE LineKeyword(txt[OpenerAt(txt, family, i)])

\* The line holds a reference #name, compared ignoring case.
HasRef(raw, name) ==
  \E i \in 1..(Len(raw) - 1) :
    raw[i] = "#" /\ ToLowerCase(raw[i + 1]) = ToLowerCase(name)

\* The block opener whose block position i lies in: the nearest block line
\* before i, when it is an opener; 0 when there is none.
OwnerAt(txt, i) ==
  LET lines == {k \in 1..(i - 1) : IsBlockLine(txt[k])}
  IN IF lines = {} THEN 0
     ELSE LET last == CHOOSE k \in lines : \A j \in lines : j <= k
          IN IF IsOpener(txt[last], BlockOpeners) THEN last ELSE 0

\* The BEGIN line that starts the executable section position i lies in: the
\* first BEGIN after the opener of its block; 0 when i lies in none.
BeginAt(txt, i) ==
  LET begins == {b \in (OwnerAt(txt, i) + 1)..(i - 1) : IsBegin(txt[b])}
  IN IF OwnerAt(txt, i) = 0 \/ begins = {} THEN 0
     ELSE CHOOSE b \in begins : \A j \in begins : b <= j

\* Position i lies in the executable section of a block.
InBlockCode(txt, i) == BeginAt(txt, i) # 0

\* The control-flow constructs of the block that are open at position i of its
\* executable section, innermost last.
EnclosingAt(txt, i) ==
  MatchFrom(txt, ControlOpeners, BeginAt(txt, i) + 1, i - 1, <<>>,
            [pairs |-> {}, stray |-> {}]).open

\* The number of diagnostics with the code at the line index.
DiagCount(code, line) ==
  Cardinality({k \in 1..Len(diagnostics) :
                 diagnostics[k].code = code /\ diagnostics[k].line = line})

NoUnmatched == unmatchedOpens = <<>> /\ unmatchedCloses = <<>>

HasCode(code) == \E i \in 1..Len(diagnostics) : diagnostics[i].code = code

-----------------------------------------------------------------------------
(* C1 *)

-----------------------------------------------------------------------------
(* C2 *)

\* C2: every input in which an opener line is never closed, or a closer line
\* matches no open opener, gets at least one Error diagnostic SCL001, SCL002 or
\* SCL003.
C2_ImbalanceIsSurfaced ==
  pc = "done" /\ ~Balanced(text)
    => HasCode("SCL001") \/ HasCode("SCL002") \/ HasCode("SCL003")

-----------------------------------------------------------------------------
(* C3 *)

\* The raw line at index idx holds the token (ignoring case).
LineHolds(idx, token) ==
  /\ idx \in 0..(Len(text) - 1)
  /\ \E i \in 1..Len(text[idx + 1]) : ToUpperCase(text[idx + 1][i]) = token

RecordedEntries ==
  ToSet(blockStack) \cup ToSet(varStack) \cup ToSet(controlStack)
  \cup ToSet(unmatchedOpens) \cup ToSet(unmatchedCloses)
  \cup ToSet(exitOutsideLoop)

\* As many lines are processed as the input has, and every recorded line number
\* is the index of the physical line that holds the recorded keyword or name.
LinesAreCounted ==
  /\ lineIdx = Len(text)
  /\ \A e \in RecordedEntries : LineHolds(e.line, e.keyword)
  /\ \A b \in ToSet(blocks) :
       /\ LineHolds(b.line, b.type)
       /\ b.endLine # -1 => LineHolds(b.endLine, CloserOf(b.type))
  /\ \A v \in ToSet(variables) : LineHolds(v.line, ToUpperCase(v.name))

\* C3: parse terminates on every input, its loop visits each line index once
\* and in order (blank and comment lines are skipped but counted), and every
\* recorded line number is the physical line index.
C3_ParseCountsEveryLineAndEnds ==
  /\ [](LinesAreCounted)
  /\ [][pc = "scan" /\ pc' = "scan" => lineIdx' = lineIdx + 1]_vars
  /\ <>(pc = "done")

\* A block recorded on the line after a comment that spans two lines.
C3_Witness ==
  /\ pc = "done"
  /\ \E k \in 1..Len(blocks) : blocks[k].line = 2
  /\ text[1] = <<"(*", " ", "VAR">>
  /\ text[2] = <<"x", " ", "*)", " ", "VAR">>
  /\ \E i \in 1..Len(unmatchedOpens) :
       unmatchedOpens[i].keyword = "VAR" /\ unmatchedOpens[i].line = 1

-----------------------------------------------------------------------------
(* C4 *)

\* The name a block opener line gives: the token between its double quotes.
QuotedName(raw) ==
  IF \E i \in 1..(Len(raw) - 2) : raw[i] = "\"" /\ raw[i + 2] = "\""
  THEN raw[1 + CHOOSE i \in 1..(Len(raw) - 2) :
                 raw[i] = "\"" /\ raw[i + 2] = "\""]
  ELSE ""

\* The name of the block that is open at position i, "" when none is.
OpenBlockNameAt(txt, i) ==
  LET open == OpenBlocksAt(txt, i)
  IN IF open = <<>> THEN "" ELSE QuotedName(txt[open[Len(open)]])

\* C4: every VariableDecl has its block field equal to the name of the block that
\* is open (opened and not yet closed) when its line is scanned, and the empty
\* string only when no block is open there, for any sequence of block openers
\* and closers before the declaration.
C4_DeclarationOwnedByOpenBlock ==
  pc = "done" =>
    \A k \in 1..Len(variables) :
      variables[k].block = OpenBlockNameAt(text, variables[k].line + 1)

-----------------------------------------------------------------------------
(* C5 *)

\* C5: at the end of parse, every block whose frame was popped by its closer
\* (the closer matched the top of the block stack) has endLine equal to that
\* closer's line index.
C5_PoppedBlockHasEndLine ==
  pc = "done" =>
    \A p \in Matching(text, BlockOpeners).pairs :
      \E k \in 1..Len(blocks) :
        blocks[k].line = p[1] - 1 /\ blocks[k].endLine = p[2] - 1

-----------------------------------------------------------------------------
(* C6 *)

\* The input is a K opener line immediately followed by K's closer line.
OpenerThenCloser(kw) ==
  /\ Len(text) = 2
  /\ LineKeyword(text[1]) = kw
  /\ LineKeyword(text[2]) = CloserOf(kw)

\* C6: for each block keyword K, a K opener line followed by K's closer line
\* yields exactly one BlockDecl, of type K, whose endLine is the closer's line
\* index, and no unmatched open or close.
C6_OpenerThenCloserIsOneBlock ==
  \A kw \in BlockOpeners :
    pc = "done" /\ OpenerThenCloser(kw) =>
      /\ Len(blocks) = 1
      /\ blocks[1].type = kw
      /\ blocks[1].line = 0
      /\ blocks[1].endLine = 1
      /\ NoUnmatched

\* FUNCTION "A" closed by END_FUNCTION on the next line, parsed to the end.
C6_Witness ==
  /\ pc = "done" /\ OpenerThenCloser("FUNCTION")
  /\ Len(blocks) = 1 /\ blocks[1].type = "FUNCTION" /\ blocks[1].endLine = 1

-----------------------------------------------------------------------------
(* C7 *)

\* A FOR, WHILE or REPEAT construct of the block encloses position i.
InsideLoop(txt, i) ==
  \E k \in 1..Len(EnclosingAt(txt, i)) :
    LineKeyword(txt[EnclosingAt(txt, i)[k]]) \in Loops

\* The number of exitOutsideLoop entries at the line index.
ExitRecorded(line) ==
  Cardinality({k \in 1..Len(exitOutsideLoop) : exitOutsideLoop[k].line = line})

\* C7: an EXIT or CONTINUE line in a block's executable section is recorded in
\* exitOutsideLoop and yields exactly one SCL005 error if and only if no FOR,
\* WHILE or REPEAT construct of that block encloses it, whatever lines precede
\* the block.
C7_ExitRecordedIffNoEnclosingLoop ==
  pc = "done" =>
    \A i \in 1..Len(text) :
      LineKeyword(text[i]) \in {"EXIT", "CONTINUE"} /\ InBlockCode(text, i) =>
        IF InsideLoop(text, i)
        THEN ExitRecorded(i - 1) = 0 /\ DiagCount("SCL005", i - 1) = 0
        ELSE ExitRecorded(i - 1) = 1 /\ DiagCount("SCL005", i - 1) = 1

-----------------------------------------------------------------------------
(* C8 *)

\* The last line of the executable section that starts at the BEGIN line b.
SectionEnd(txt, b) ==
  LET lines == {k \in (b + 1)..Len(txt) : IsBlockLine(txt[k])}
  IN IF lines = {} THEN Len(txt)
     ELSE (CHOOSE k \in lines : \A j \in lines : k <= j) - 1

\* The CASE ... END_CASE constructs in executable sections of blocks, as pairs
\* of positions.
CasePairs(txt) ==
  UNION {
    {p \in MatchFrom(txt, ControlOpeners, b + 1, SectionEnd(txt, b), <<>>,
                     [pairs |-> {}, stray |-> {}]).pairs :
       LineKeyword(txt[p[1]]) = "CASE"} :
    b \in {j \in 1..Len(txt) : BeginAt(txt, j + 1) = j}}

\* An ELSE line between the CASE and its END_CASE belongs to the CASE: every
\* construct opened since the CASE line is closed before it.
HasOwnElse(txt, p) ==
  \E k \in (p[1] + 1)..(p[2] - 1) :
    /\ LineKeyword(txt[k]) = "ELSE"
    /\ MatchFrom(txt, ControlOpeners, p[1] + 1, k - 1, <<>>,
                 [pairs |-> {}, stray |-> {}]).open = <<>>

\* C8: a CASE ... END_CASE in a block's executable section yields exactly one
\* SCL104 warning at the CASE line when no ELSE belonging to that CASE lies
\* between the CASE line and its END_CASE, and none when one does; the ELSE of
\* an IF nested in the CASE does not count.
C8_CaseWithoutElseWarnsOnce ==
  pc = "done" =>
    \A p \in CasePairs(text) :
      DiagCount("SCL104", p[1] - 1) = IF HasOwnElse(text, p) THEN 0 ELSE 1

\* A CASE whose only ELSE is that of a nested IF, warned about once, beside a
\* parse of a CASE with its own ELSE.
C8_Witness ==
  /\ pc = "done"
  /\ \E p \in CasePairs(text) :
       /\ ~HasOwnElse(text, p)
       /\ \E k \in (p[1] + 1)..(p[2] - 1) : LineKeyword(text[k]) = "ELSE"
       /\ DiagCount("SCL104", p[1] - 1) = 1

-----------------------------------------------------------------------------
(* Blocks that follow one another: a block opens only when none is open.    *)

NextScope ==
  \/ \E raw \in ScopeLines :
       /\ Len(text) < MaxScopeLines
       /\ IsOpener(raw, BlockOpeners) => OpenBlocksAt(text, Len(text) + 1) = <<>>
       /\ ScanLine(raw)
  \/ EndOfInput

SpecScope == Init /\ [][NextScope]_vars

-----------------------------------------------------------------------------
(* C9 *)

\* Position i declares x as "x : Int;" in a static VAR section, before BEGIN,
\* of a code block.
DeclaredInCodeBlock(txt, i) ==
  /\ txt[i] = LineDeclX
  /\ OpenKeywordAt(txt, BlockOpeners, i)
       \in {"FUNCTION_BLOCK", "FUNCTION", "ORGANIZATION_BLOCK"}
  /\ OpenKeywordAt(txt, SectionOpeners, i) = "VAR"
  /\ OpenerAt(txt, SectionOpeners, i) > OpenerAt(txt, BlockOpeners, i)
  /\ ~InCode(txt, i)

\* The lines of the block position i lies in: from its opener to its closer,
\* or to the end of the text.
BlockSpan(txt, i) ==
  LET open == OpenBlocksAt(txt, i)
      o == open[Len(open)]
      ends == {p[2] : p \in {q \in Matching(txt, BlockOpeners).pairs : q[1] = o}}
  IN o..(IF ends = {} THEN Len(txt) ELSE CHOOSE e \in ends : TRUE)

\* C9: for x declared as "x : Int;" in a static VAR section of a code block,
\* there is exactly one SCL101 warning for x when #x (ignoring case) occurs
\* nowhere, and none when the same block contains #x.  "Nowhere in executable
\* code" is read at its weakest, nowhere in the text.
C9_UnusedWarnedOnceUsedNever ==
  pc = "done" =>
    \A i \in 1..Len(text) :
      DeclaredInCodeBlock(text, i) =>
        /\ (\A j \in 1..Len(text) : ~HasRef(text[j], "x"))
             => DiagCount("SCL101", i - 1) = 1
        /\ (\E j \in BlockSpan(text, i) : HasRef(text[j], "x"))
             => DiagCount("SCL101", i - 1) = 0

-----------------------------------------------------------------------------
(* C10 *)

\* C10: no SCL101 warning is produced at a line of a variable section inside a
\* DATA_BLOCK or TYPE block, nor at a line of a VAR_OUTPUT section, whatever
\* other blocks the document holds.
C10_NoUnusedWarningForData ==
  pc = "done" =>
    \A i \in 1..Len(text) :
      /\ OpenerAt(text, SectionOpeners, i) > OpenerAt(text, BlockOpeners, i)
      /\ \/ OpenKeywordAt(text, BlockOpeners, i) \in {"DATA_BLOCK", "TYPE"}
         \/ OpenKeywordAt(text, SectionOpeners, i) = "VAR_OUTPUT"
      => DiagCount("SCL101", i - 1) = 0

-----------------------------------------------------------------------------
(* Declarations of one name in blocks whose names are not quoted.           *)

LineDeclUpperX == <<"X", " ", ":", " ", "Bool", ";">>

DupLines ==
  {<<"FUNCTION_BLOCK", " ", "FB1">>, <<"FUNCTION_BLOCK", " ", "FB2">>,
   <<"END_FUNCTION_BLOCK">>, <<"VAR">>, LineDeclX, LineDeclUpperX}

MaxDupLines == 6

NextDup ==
  \/ \E raw \in DupLines :
       /\ Len(text) < MaxDupLines
       /\ IsOpener(raw, BlockOpeners) => OpenBlocksAt(text, Len(text) + 1) = <<>>
       /\ ScanLine(raw)
  \/ EndOfInput

SpecDup == Init /\ [][NextDup]_vars

\* Position i declares a variable: a "name : type;" line in a variable section,
\* before BEGIN.
IsDeclarationAt(txt, i) ==
  /\ txt[i] \in {LineDeclX, LineDeclUpperX}
  /\ OpenerAt(txt, SectionOpeners, i) # 0
  /\ ~InCode(txt, i)

\* The declarations of the name declared at position i in the block that
\* position i lies in (the names compared ignoring case); outside any block,
\* the declarations of the name outside any block.
SameNameInBlock(txt, i) ==
  {j \in 1..Len(txt) :
     /\ IsDeclarationAt(txt, j)
     /\ OpenerAt(txt, BlockOpeners, j) = OpenerAt(txt, BlockOpeners, i)
     /\ ToLowerCase(txt[j][1]) = ToLowerCase(txt[i][1])}

FirstOf(S) == CHOOSE k \in S : \A j \in S : k <= j

\* The SCL004 diagnostics at the line index.
DuplicatesAt(line) ==
  {k \in 1..Len(diagnostics) :
     diagnostics[k].code = "SCL004" /\ diagnostics[k].line = line}

-----------------------------------------------------------------------------
(* C11 *)

\* C11: of the k declarations of one name (ignoring case) in one block, the
\* first gets no SCL004 and each later one gets exactly one, whose message
\* names the 1-based line of the first; so k declarations give k - 1 errors and
\* a name declared once gives none.
C11_DuplicatesAfterTheFirst ==
  pc = "done" =>
    \A i \in 1..Len(text) :
      IsDeclarationAt(text, i) /\ OpenerAt(text, BlockOpeners, i) # 0 =>
        LET first == FirstOf(SameNameInBlock(text, i))
        IN IF i = first THEN DuplicatesAt(i - 1) = {}
           ELSE /\ Cardinality(DuplicatesAt(i - 1)) = 1
                /\ \A k \in DuplicatesAt(i - 1) :
                     diagnostics[k].message[4] = first

-----------------------------------------------------------------------------
(* C12 *)

\* C12: a declaration that is the only one of its name in its block (or the
\* only one outside any block) gets no SCL004, whatever declarations of that
\* name other blocks hold.
C12_NoDuplicateAcrossBlocks ==
  pc = "done" =>
    \A i \in 1..Len(text) :
      IsDeclarationAt(text, i) /\ SameNameInBlock(text, i) = {i} =>
        DuplicatesAt(i - 1) = {}

-----------------------------------------------------------------------------
(* Comment marks inside and outside string literals.                        *)

\* '(*' #X;   and   "(*" #X;
LineOpenerInString(q) == <<q, "(*", q, " ", "#", "X", ";">>
\* '//' #X;   and   "//" #X;
LineSlashesInString(q) == <<q, "//", q, " ", "#", "X", ";">>
\* "'" // #X
LineSlashesAfterString == <<"\"", "'", "\"", " ", "//", " ", "#", "X">>

StringLines ==
  {LineOpenerInString("'"), LineOpenerInString("\""),
   LineSlashesInString("'"), LineSlashesInString("\""),
   LineSlashesAfterString, Named("FUNCTION_BLOCK", "A")}

MaxStringLines == 4

NextStrings ==
  \/ \E raw \in StringLines : Len(text) < MaxStringLines /\ ScanLine(raw)
  \/ EndOfInput

SpecStrings == Init /\ [][NextStrings]_vars

\* The quote that is open after the first p tokens of the line, "" when no
\* string literal is open there: a literal runs from a quote to the next quote
\* of the same kind.
RECURSIVE OpenQuote(_, _)
OpenQuote(raw, p) ==
  IF p = 0 THEN ""
  ELSE LET q == OpenQuote(raw, p - 1)
       IN IF q = "" THEN (IF raw[p] \in {"'", "\""} THEN raw[p] ELSE "")
          ELSE IF raw[p] = q THEN "" ELSE q

\* The token at position p of the line lies inside a string literal.
InString(raw, p) == OpenQuote(raw, p - 1) # "" /\ OpenQuote(raw, p) # ""

\* The positions of the line that hold the mark.
MarkAt(raw, mark) == {p \in 1..Len(raw) : raw[p] = mark}

\* The references #name of the line that stand after position p.
RefsAfter(raw, p) ==
  {ToLowerCase(raw[k + 1]) : k \in {j \in (p + 1)..(Len(raw) - 1) : raw[j] = "#"}}

-----------------------------------------------------------------------------
(* C13 *)

\* Every comment opener of the text lies inside a string literal.
OpenersOnlyInStrings(txt) ==
  \A i \in 1..Len(txt) : \A p \in MarkAt(txt[i], "(*") : InString(txt[i], p)

\* C13: when every "(*" of the text lies inside a string literal, the
\* in-comment flag stays clear, the rest of each such line is kept (the
\* references after the literal are recorded) and the following lines are
\* scanned (every block opener line gives a BlockDecl).
C13_OpenerInStringStartsNoComment ==
  OpenersOnlyInStrings(text) =>
    /\ ~inBlockComment
    /\ \A i \in 1..Len(text) :
         /\ \A p \in MarkAt(text[i], "(*") :
              RefsAfter(text[i], p) \subseteq usedVariables
         /\ IsOpener(text[i], BlockOpeners)
              => \E k \in 1..Len(blocks) : blocks[k].line = i - 1

-----------------------------------------------------------------------------
(* C14 *)

\* C14: a "//" inside a string literal does not truncate its line: the
\* references after it are recorded in usedVariables; a line whose first "//"
\* outside any string literal has a reference only after it records none.
C14_SlashesInStringKeepTheLine ==
  \A i \in 1..Len(text) :
    /\ \A p \in MarkAt(text[i], "//") :
         InString(text[i], p)
           /\ (\A r \in MarkAt(text[i], "//") : InString(text[i], r))
           => RefsAfter(text[i], p) \subseteq usedVariables
    /\ (text[i] = LineSlashesAfterString /\ Len(text) = 1) => usedVariables = {}

-----------------------------------------------------------------------------
(* Keywords and identifiers that begin with a keyword, in one block.        *)

LineVersion == <<"VERSION", " ", ":", " ", "1">>
LineVarConstant == <<"VAR", " ", "CONSTANT">>
LineDeclVersionCount == <<"VersionCount", " ", ":", " ", "Int", ";">>
LineDeclVarConstantMax == <<"VarConstantMax", " ", ":", " ", "Int", ";">>
LineAssignIFX == <<"IFX", " ", ":", "=", " ", "1", ";">>

KeywordLines ==
  {LineVersion, <<"VAR">>, LineVarConstant, <<"BEGIN">>, LineIf,
   LineDeclVersionCount, LineDeclVarConstantMax, LineAssignIFX}

MaxKeywordLines == 4

NextKeywords ==
  \/ Len(text) = 0 /\ ScanLine(Named("FUNCTION_BLOCK", "A"))
  \/ \E raw \in KeywordLines :
       Len(text) >= 1 /\ Len(text) < MaxKeywordLines /\ ScanLine(raw)
  \/ EndOfInput

SpecKeywords == Init /\ [][NextKeywords]_vars

\* The line indexes at which an opener of the family is left on record.
RecordedOpens(family) ==
  {unmatchedOpens[k].line :
     k \in {j \in 1..Len(unmatchedOpens) : unmatchedOpens[j].keyword \in family}}

-----------------------------------------------------------------------------
(* C15 *)

\* C15: a line is classified as keyword K exactly when the trimmed, upper-cased
\* line is K, K followed by ';', or begins with K followed by a blank, a tab or
\* a semicolon.  In a text of one block that closes nothing, the classification
\* is on record: the block has a VERSION exactly when a line is a VERSION line,
\* a BEGIN exactly when a line is a BEGIN line, and the variable sections and IF
\* constructs left open are exactly the lines that are their opener lines.
C15_ClassifiedExactlyByKeywordRule ==
  pc = "done" /\ Len(blocks) = 1 =>
    /\ blocks[1].hasVersion
         <=> \E i \in 2..Len(text) : LineKeyword(text[i]) = "VERSION"
    /\ blocks[1].hasBegin
         <=> \E i \in 2..Len(text) : LineKeyword(text[i]) = "BEGIN"
    /\ RecordedOpens(SectionOpeners \cup {"VAR_CONSTANT"})
         = {i - 1 : i \in {j \in 1..Len(text) :
                             LineKeyword(text[j]) \in SectionOpeners}}
    /\ RecordedOpens({"IF"})
         = {i - 1 : i \in {j \in 1..Len(text) :
                             LineKeyword(text[j]) = "IF" /\ InCode(text, j)}}

-----------------------------------------------------------------------------
(* C16 *)

\* C16: a variable whose block name is the name of no BlockDecl gets no SCL101
\* (runRules has no failing step in the model: every rule is a total function
\* of the ParseResult).
C16_UnownedVariableGetsNoUnusedWarning ==
  pc = "done" =>
    \A k \in 1..Len(variables) :
      (\A b \in 1..Len(blocks) : blocks[b].name # variables[k].block)
        => DiagCount("SCL101", variables[k].line) = 0

-----------------------------------------------------------------------------
(* C17 *)

\* The code of the family a recorded keyword belongs to.
FamilyCode(kw) ==
  IF kw \in ControlOpeners \cup ClosersOf(ControlOpeners) THEN "SCL001"
  ELSE IF kw \in SectionOpeners \cup ClosersOf(SectionOpeners)
                   \cup {"VAR_CONSTANT"} THEN "SCL002"
  ELSE IF kw \in BlockOpeners \cup ClosersOf(BlockOpeners) THEN "SCL003"
  ELSE ""

\* The diagnostics of the three rules of unmatched keywords.
UnmatchedDiagnostics ==
  {k \in 1..Len(diagnostics) :
     diagnostics[k].code \in {"SCL001", "SCL002", "SCL003"}}

\* C17: every entry of unmatchedOpens and of unmatchedCloses has exactly one
\* diagnostic among SCL001..SCL003 at its line, an Error with the code of the
\* entry's family, and the number of these diagnostics is
\* |unmatchedOpens| + |unmatchedCloses|.
C17_EachUnmatchedEntryReportedOnce ==
  pc = "done" =>
    /\ \A e \in ToSet(unmatchedOpens) \cup ToSet(unmatchedCloses) :
         LET at == {k \in UnmatchedDiagnostics : diagnostics[k].line = e.line}
         IN /\ Cardinality(at) = 1
            /\ \A k \in at : /\ diagnostics[k].code = FamilyCode(e.keyword)
                             /\ diagnostics[k].severity = "Error"
    /\ Cardinality(UnmatchedDiagnostics)
         = Len(unmatchedOpens) + Len(unmatchedCloses)

\* A parse that left an unmatched close and an unmatched open of each family.
C17_Witness ==
  /\ pc = "done"
  /\ unmatchedCloses # <<>>
  /\ {FamilyCode(unmatchedOpens[k].keyword) : k \in 1..Len(unmatchedOpens)}
       \cup {FamilyCode(unmatchedCloses[k].keyword) :
               k \in 1..Len(unmatchedCloses)}
       = {"SCL001", "SCL002", "SCL003"}
  /\ Cardinality(UnmatchedDiagnostics) >= 3

-----------------------------------------------------------------------------
(* Executable sections with and without statements, in blocks that follow   *)
(* one another.                                                             *)

LineAssignVersionCount == <<"VersionCount", " ", ":", "=", " ", "1", ";">>

EmptyLines ==
  {Named("FUNCTION_BLOCK", "A"), Named("DATA_BLOCK", "B"),
   <<"END_FUNCTION_BLOCK">>, <<"END_DATA_BLOCK">>, <<"BEGIN">>,
   LineAssignVersionCount, LineUseX}

MaxEmptyLines == 4

NextEmpty ==
  \/ \E raw \in EmptyLines :
       /\ Len(text) < MaxEmptyLines
       /\ IsOpener(raw, BlockOpeners) => OpenBlocksAt(text, Len(text) + 1) = <<>>
       /\ ScanLine(raw)
  \/ EndOfInput

SpecEmpty == Init /\ [][NextEmpty]_vars

-----------------------------------------------------------------------------
(* C18 *)

\* The last line of the block opened at position o: its closer, or the end of
\* the text.
BlockEnd(txt, o) ==
  LET ends == {p[2] : p \in {q \in Matching(txt, BlockOpeners).pairs : q[1] = o}}
  IN IF ends = {} THEN Len(txt) ELSE CHOOSE e \in ends : TRUE

\* The BEGIN lines of the block opened at position o.
BeginsOf(txt, o) == {b \in (o + 1)..BlockEnd(txt, o) : IsBegin(txt[b])}

\* The line is a closer: its first word begins with END_.
IsCloserLine(raw) ==
  LineKeyword(raw) \in ClosersOf(BlockOpeners) \cup ClosersOf(SectionOpeners)
                         \cup ClosersOf(ControlOpeners)

\* The non-blank, non-closer lines after the BEGIN of the block opened at o.
StatementsOf(txt, o) ==
  {i \in (FirstOf(BeginsOf(txt, o)) + 1)..BlockEnd(txt, o) :
     Trim(txt[i]) # <<>> /\ ~IsCloserLine(txt[i]) /\ ~IsBegin(txt[i])}

\* C18: a FUNCTION_BLOCK, FUNCTION or ORGANIZATION_BLOCK with a BEGIN line gets
\* exactly one SCL105 when no non-blank, non-closer line follows BEGIN in the
\* block, and none when one does; DATA_BLOCK and TYPE blocks and blocks without
\* BEGIN get none.
C18_EmptyBeginWarnedOnce ==
  pc = "done" =>
    \A o \in 1..Len(text) :
      IsOpener(text[o], BlockOpeners) =>
        DiagCount("SCL105", o - 1) =
          IF /\ LineKeyword(text[o]) \notin {"DATA_BLOCK", "TYPE"}
             /\ BeginsOf(text, o) # {}
             /\ StatementsOf(text, o) = {}
          THEN 1 ELSE 0

-----------------------------------------------------------------------------
(* Inputs that draw a diagnostic of every rule.                             *)

CodeLines ==
  {Named("FUNCTION_BLOCK", "A"), <<"VAR">>, LineDeclX, <<"BEGIN">>, LineCase,
   <<"EXIT", ";">>}

MaxCodeLines == 5

NextCodes ==
  \/ \E raw \in CodeLines : Len(text) < MaxCodeLines /\ ScanLine(raw)
  \/ EndOfInput

SpecCodes == Init /\ [][NextCodes]_vars

-----------------------------------------------------------------------------
(* C19 *)

ErrorCodes == {"SCL001", "SCL002", "SCL003", "SCL004", "SCL005"}
WarningCodes == {"SCL101", "SCL102", "SCL103", "SCL104", "SCL105"}
HintCodes == {"SCL201"}

\* The severity of the band the code lies in.
BandSeverity(code) ==
  IF code \in ErrorCodes THEN "Error"
  ELSE IF code \in WarningCodes THEN "Warning"
  ELSE "Hint"

\* The codes of the diagnostics.
CodesReported == {diagnostics[k].code : k \in 1..Len(diagnostics)}

\* C19: every diagnostic has a code in SCL001..SCL005, SCL101..SCL105, SCL201,
\* and the severity of its band: Error, Warning, Hint.
C19_SeverityByCodeBand ==
  \A k \in 1..Len(diagnostics) :
    /\ diagnostics[k].code \in ErrorCodes \cup WarningCodes \cup HintCodes
    /\ diagnostics[k].severity = BandSeverity(diagnostics[k].code)

\* A parse whose diagnostics hold errors, warnings and the hint: a block named
\* against the convention, with a duplicate, unused variable in an unclosed
\* section and an empty BEGIN section.
C19_Witness ==
  /\ pc = "done"
  /\ {"SCL002", "SCL003", "SCL004", "SCL101", "SCL102", "SCL103", "SCL105",
      "SCL201"} \subseteq CodesReported

-----------------------------------------------------------------------------
(* Calls of parse one after another, on texts of which one leaves a comment *)
(* open at its end.                                                         *)

CallLines == {<<"VAR">>, <<"(*", " ", "x">>, Named("FUNCTION_BLOCK", "A")}

MaxCallLines == 1
MaxCalls == 3

NextCalls ==
  \/ \E raw \in CallLines : Len(text) < MaxCallLines /\ ScanLine(raw)
  \/ EndOfInput
  \/ Len(calls) < MaxCalls /\ ParseAgain

SpecCalls == Init /\ [][NextCalls]_vars

-----------------------------------------------------------------------------
(* C20 *)

\* C20: two calls of parse on the same text return equal models (blocks,
\* variables, usedVariables, unmatchedOpens, unmatchedCloses, exitOutsideLoop),
\* whatever calls on other texts lie before or between them.
C20_SameTextSameModel ==
  \A i, j \in 1..Len(calls) :
    calls[i][1] = calls[j][1] => calls[i][2] = calls[j][2]

\* Two calls on the text VAR with a call between them on a text that ends
\* inside a comment.
C20_Witness ==
  /\ Len(calls) = 3
  /\ calls[1][1] = <<<<"VAR">>>>
  /\ calls[2][1] = <<<<"(*", " ", "x">>>>
  /\ calls[3][1] = <<<<"VAR">>>>
  /\ calls[3][2].unmatchedOpens # <<>>
  /\ calls[1][2] = calls[3][2]

-----------------------------------------------------------------------------
(* SclLinter (src/src/linter.ts).  The handlers run one at a time on the   *)
(* extension host; a timeout that is pending in the runtime may fire at    *)
(* any later moment.                                                       *)

\* The for loop of parse from index idx to the end of lines.
RECURSIVE ScanFrom(_, _, _)
ScanFrom(s, lines, idx) ==
  IF idx >= Len(lines) THEN s
  ELSE ScanFrom(LoopBody(s, lines[idx + 1], idx), lines, NextLineIdx(idx))

\* The code of parse after the loop, from the state s the loop ends in.
AfterLoop(s) ==
  [blocks |-> s.blocks, variables |-> s.variables,
   usedVariables |-> s.usedVariables,
   unmatchedOpens |-> s.unmatchedOpens \o s.blockStack \o s.varStack
                      \o s.controlStack,
   unmatchedCloses |-> s.unmatchedCloses,
   exitOutsideLoop |-> s.exitOutsideLoop]

\* parse(text), for the lines of text.
parse(lines) ==
  AfterLoop(ScanFrom(FreshState([inBlockComment |-> FALSE]), lines, 0))

\* The vscode.Diagnostic lintDocument makes of the LintDiagnostic d.
VscodeDiagnostic(d, lines) ==
  LET lineText == IF d.line < Len(lines) THEN lines[d.line + 1] ELSE <<>>
      startCol == d.col
      endCol == Len(TrimRight(lineText))
  IN [range |-> [line |-> d.line, startCol |-> startCol,
                 endCol |-> IF endCol > startCol + 1 THEN endCol
                            ELSE startCol + 1],
      message |-> d.message, severity |-> d.severity, code |-> d.code,
      source |-> "SCL"]

\* The state the handlers of SclLinter read and write.
LinterState ==
  [diagnosticCollection |-> diagnosticCollection,
   debounceTimers |-> debounceTimers, timeouts |-> timeouts,
   lintCalls |-> <<>>]

\* lintDiags.map(...): the array lintDocument hands to diagnosticCollection.
Converted(lintDiags, lines) ==
  [k \in 1..Len(lintDiags) |-> VscodeDiagnostic(lintDiags[k], lines)]

\* The texts a document can have while the linter's events are explored.
Texts == {<<<<>>>>, <<<<"END_VAR">>>>}

\* The diagnostics lintDocument computes for those texts, computed once.
LintedTexts ==
  [lines \in Texts |-> Converted(runRules(parse(lines)), lines)]

\* The diagnostics lintDocument computes for the text of lines.
Lint(lines) ==
  IF lines \in Texts THEN LintedTexts[lines]
  ELSE Converted(runRules(parse(lines)), lines)

\* lintDocument that publishes only for a document without an entry.
lintDocumentKeepsEntry(L, docs, uri) ==
  [L EXCEPT !.diagnosticCollection[uri] =
              IF @ = <<>> THEN <<Lint(docs[uri].text)>> ELSE @,
            !.lintCalls = Append(@, uri)]

\* lintDocument(document)
lintDocument(L, docs, uri) ==
  [L EXCEPT !.diagnosticCollection[uri] = <<Lint(docs[uri].text)>>,
            !.lintCalls = Append(@, uri)]

\* The timers the runtime can hold at once.
MaxTimers == 3

TimerIds == 1..MaxTimers

\* The handles that are in use: pending, or still held by the linter.
UsedTimers(L) ==
  {t.id : t \in L.timeouts} \cup {L.debounceTimers[u] : u \in URIs}

\* The handle setTimeout returns: one that is not in use.
NewTimer(L) == CHOOSE id \in TimerIds \ UsedTimers(L) :
                 \A other \in TimerIds \ UsedTimers(L) : id <= other

\* clearTimeout(id)
clearTimeout(pending, id) == {t \in pending : t.id # id}

\* lintDocumentDebounced without clearTimeout(existing).
lintDocumentDebouncedKeepsExisting(L, uri) ==
  LET id == NewTimer(L)
  IN [L EXCEPT !.timeouts = @ \cup {[id |-> id, uri |-> uri]},
               !.debounceTimers[uri] = id]

\* lintDocumentDebounced(document), up to setTimeout's return.
lintDocumentDebounced(L, uri) ==
  LET existing == L.debounceTimers[uri]
      id == NewTimer(L)
      cleared == IF existing # 0 THEN clearTimeout(L.timeouts, existing)
                 ELSE L.timeouts
  IN [L EXCEPT !.timeouts = cleared \cup {[id |-> id, uri |-> uri]},
               !.debounceTimers[uri] = id]

\* The callback without its call of lintDocument.
onTimeoutSkipsLint(L, docs, uri) == [L EXCEPT !.debounceTimers[uri] = 0]

\* The callback lintDocumentDebounced hands to setTimeout.
onTimeout(L, docs, uri) ==
  lintDocument([L EXCEPT !.debounceTimers[uri] = 0], docs, uri)

\* onDidSaveTextDocument and onDidOpenTextDocument
onDidSaveOrOpen(L, docs, uri) ==
  IF languageId(uri) = "scl" THEN lintDocument(L, docs, uri) ELSE L

\* onDidChangeTextDocument
onDidChange(L, uri) ==
  IF languageId(uri) = "scl" THEN lintDocumentDebounced(L, uri) ELSE L

\* onDidCloseTextDocument that leaves the timer pending.
onDidCloseKeepsTimer(L, uri) ==
  [L EXCEPT !.diagnosticCollection[uri] = <<>>, !.debounceTimers[uri] = 0]

\* onDidCloseTextDocument
onDidClose(L, uri) ==
  LET timer == L.debounceTimers[uri]
      L1 == [L EXCEPT !.diagnosticCollection[uri] = <<>>]
  IN IF timer # 0
     THEN [L1 EXCEPT !.timeouts = clearTimeout(@, timer),
                     !.debounceTimers[uri] = 0]
     ELSE L1

\* The order of vscode.workspace.textDocuments.
TextDocuments == <<"a.scl", "b.scl", "c.txt">>

\* The constructor's loop over the documents that are open already.
RECURSIVE LintOpenDocuments(_, _, _)
LintOpenDocuments(L, docs, k) ==
  IF k > Len(TextDocuments) THEN L
  ELSE LET uri == TextDocuments[k]
       IN LintOpenDocuments(IF docs[uri].isOpen /\ languageId(uri) = "scl"
                            THEN lintDocument(L, docs, uri) ELSE L,
                            docs, k + 1)

\* The change events counted for one document.
MaxChanges == 2

\* The linter is in state L.
Linter(L) ==
  /\ diagnosticCollection = L.diagnosticCollection
  /\ debounceTimers = L.debounceTimers
  /\ timeouts = L.timeouts
  /\ lintCalls = L.lintCalls

\* The handler returned with the linter in state L.
Return(L) ==
  /\ diagnosticCollection' = L.diagnosticCollection
  /\ debounceTimers' = L.debounceTimers
  /\ timeouts' = L.timeouts
  /\ lintCalls' = L.lintCalls
  /\ changesSinceLint' =
       [u \in URIs |-> IF \E k \in 1..Len(L.lintCalls) : L.lintCalls[k] = u
                       THEN 0 ELSE changesSinceLint[u]]

\* The variables of parse, which the editor's events leave alone.
parseVars == <<text, lineIdx, pc, blocks, variables, usedVariables,
               unmatchedOpens, unmatchedCloses, exitOutsideLoop, blockStack,
               varStack, controlStack, currentBlock, currentVarSection,
               inBlockComment, afterBegin, diagnostics, calls>>

\* A document is opened with the text txt.
Open(uri, txt) ==
  /\ ~documents[uri].isOpen
  /\ documents' = [documents EXCEPT ![uri] = [isOpen |-> TRUE, text |-> txt]]
  /\ Return(onDidSaveOrOpen(LinterState, documents', uri))
  /\ event' = <<"open", uri, 0>>
  /\ UNCHANGED <<parseVars, reply>>

\* An open document is saved.
Save(uri) ==
  /\ documents[uri].isOpen
  /\ Return(onDidSaveOrOpen(LinterState, documents, uri))
  /\ event' = <<"save", uri, 0>>
  /\ UNCHANGED <<parseVars, reply, documents>>

\* An open document is edited: its text becomes txt.
Change(uri, txt) ==
  /\ documents[uri].isOpen
  /\ TimerIds \ UsedTimers(LinterState) # {}
  /\ documents' = [documents EXCEPT ![uri].text = txt]
  /\ LET L == onDidChange(LinterState, uri)
     IN /\ diagnosticCollection' = L.diagnosticCollection
        /\ debounceTimers' = L.debounceTimers
        /\ timeouts' = L.timeouts
        /\ lintCalls' = L.lintCalls
  /\ changesSinceLint' =
       [changesSinceLint EXCEPT ![uri] = IF @ < MaxChanges THEN @ + 1 ELSE @]
  /\ event' = <<"change", uri, 0>>
  /\ UNCHANGED <<parseVars, reply>>

\* An open document is closed and leaves the workspace.
Close(uri) ==
  /\ documents[uri].isOpen
  /\ documents' = [documents EXCEPT ![uri] = [isOpen |-> FALSE, text |-> <<>>]]
  /\ Return(onDidClose(LinterState, uri))
  /\ event' = <<"close", uri, 0>>
  /\ UNCHANGED <<parseVars, reply>>

\* A pending timeout fires and its callback runs.
Timeout(t) ==
  /\ t \in timeouts
  /\ Return(onTimeout([LinterState EXCEPT !.timeouts = @ \ {t}], documents,
                      t.uri))
  /\ event' = <<"timeout", t.uri, changesSinceLint[t.uri]>>
  /\ UNCHANGED <<parseVars, reply, documents>>

\* The linter before its constructor ran.
NewLinter ==
  [diagnosticCollection |-> [u \in URIs |-> <<>>],
   debounceTimers |-> [u \in URIs |-> 0], timeouts |-> {},
   lintCalls |-> <<>>]

\* The extension is activated with the documents docs in the workspace:
\* new SclLinter(context).
Activate(docs) ==
  /\ text = <<>>
  /\ lineIdx = 0
  /\ pc = "scan"
  /\ Enter(FreshState([inBlockComment |-> FALSE]))
  /\ diagnostics = <<>>
  /\ calls = <<>>
  /\ reply = <<>>
  /\ documents = docs
  /\ Linter(LintOpenDocuments(NewLinter, docs, 1))
  /\ changesSinceLint = [u \in URIs |-> 0]
  /\ event = <<"activate", "", 0>>

InitLinter ==
  \E docs \in [URIs -> [isOpen : {TRUE}, text : Texts]
                        \cup {[isOpen |-> FALSE, text |-> <<>>]}] :
    Activate(docs)

NextLinter ==
  \/ \E uri \in URIs, txt \in Texts : Open(uri, txt)
  \/ \E uri \in URIs : Save(uri)
  \/ \E uri \in URIs, txt \in Texts : Change(uri, txt)
  \/ \E uri \in URIs : Close(uri)
  \/ \E t \in timeouts : Timeout(t)

SpecLinter == InitLinter /\ [][NextLinter]_vars
-----------------------------------------------------------------------------
(* C21 - C23: the linter's events.                                         *)

\* The timeouts pending for the document uri.
PendingFor(uri) == {t \in timeouts : t.uri = uri}

\* The array published for a text.
Published(txt) ==
  LET lintDiags == runRules(parse(txt))
  IN <<[k \in 1..Len(lintDiags) |-> VscodeDiagnostic(lintDiags[k], txt)]>>

\* C21: change events are debounced per document.  At every moment a document
\* has at most one pending timeout, the handle debounceTimers holds for it is
\* that of a pending timeout of this document (never a fired or a cancelled
\* one), and every pending timeout is the one debounceTimers holds, that is
\* the one the last change armed.  A change event calls lintDocument not at
\* all and leaves a timer armed; a timeout calls it exactly once, for its
\* document, however many changes arrived while a timer was pending; open and
\* save events call it at once.
C21_ChangesAreDebouncedPerDocument ==
  /\ \A uri \in URIs :
       /\ Cardinality(PendingFor(uri)) <= 1
       /\ debounceTimers[uri] # 0
            => \E t \in PendingFor(uri) : t.id = debounceTimers[uri]
       /\ \A t \in PendingFor(uri) : debounceTimers[uri] = t.id
  /\ event[1] = "change" /\ languageId(event[2]) = "scl"
       => lintCalls = <<>> /\ debounceTimers[event[2]] # 0
  /\ event[1] \in {"open", "save"} /\ languageId(event[2]) = "scl"
       => lintCalls = <<event[2]>>
  /\ event[1] = "timeout" => lintCalls = <<event[2]>>

\* Two changes arrived while a timer was pending, and the timeout has fired.
C21_Witness ==
  /\ event = <<"timeout", "a.scl", MaxChanges>>
  /\ lintCalls = <<"a.scl">>
  /\ PendingFor("a.scl") = {}
  /\ PendingFor("b.scl") # {}

\* C22: whenever an open SCL document has no pending debounce timer, the
\* diagnostics published for it are the whole result of runRules(parse(text))
\* for its current text, whatever the order of the events was.
C22_PublishedIsOfCurrentText ==
  \A uri \in URIs :
    documents[uri].isOpen /\ languageId(uri) = "scl" /\ debounceTimers[uri] = 0
      => diagnosticCollection[uri] = Published(documents[uri].text)

\* A document was linted, edited to a text with other diagnostics and linted
\* again by the timeout.
C22_Witness ==
  /\ event = <<"timeout", "a.scl", 1>>
  /\ documents["a.scl"].isOpen
  /\ debounceTimers["a.scl"] = 0
  /\ diagnosticCollection["a.scl"] = Published(<<<<"END_VAR">>>>)
  /\ diagnosticCollection["a.scl"] # <<<<>>>>

\* C23: a closed document has no published diagnostics, no entry in
\* debounceTimers and no pending timeout, and no timeout fires for it, until
\* it is opened again.
C23_ClosedDocumentIsSilent ==
  /\ \A uri \in URIs :
       ~documents[uri].isOpen
         => /\ diagnosticCollection[uri] = <<>>
            /\ debounceTimers[uri] = 0
            /\ PendingFor(uri) = {}
  /\ event[1] = "timeout" => documents[event[2]].isOpen

\* A document with published diagnostics and a pending timer was closed.
C23_Witness ==
  /\ event = <<"close", "a.scl", 0>>
  /\ changesSinceLint["a.scl"] > 0
  /\ ~documents["a.scl"].isOpen
  /\ diagnosticCollection["a.scl"] = <<>>
  /\ PendingFor("a.scl") = {}

-----------------------------------------------------------------------------
(* formatScl (src/src/formatter.ts).                                       *)

SCL_KEYWORDS ==
  {"FUNCTION_BLOCK", "END_FUNCTION_BLOCK", "FUNCTION", "END_FUNCTION",
   "ORGANIZATION_BLOCK", "END_ORGANIZATION_BLOCK", "DATA_BLOCK",
   "END_DATA_BLOCK", "TYPE", "END_TYPE", "INTERFACE", "END_INTERFACE",
   "VAR_INPUT", "VAR_OUTPUT", "VAR_IN_OUT", "VAR_TEMP", "VAR_GLOBAL",
   "VAR", "END_VAR", "STRUCT", "END_STRUCT",
   "IF", "THEN", "ELSIF", "ELSE", "END_IF",
   "FOR", "TO", "BY", "DO", "END_FOR",
   "WHILE", "END_WHILE", "REPEAT", "UNTIL", "END_REPEAT",
   "CASE", "OF", "END_CASE",
   "RETURN", "EXIT", "CONTINUE", "GOTO",
   "BEGIN", "REGION", "END_REGION",
   "AND", "OR", "XOR", "NOT", "MOD",
   "TRUE", "FALSE", "NULL",
   "VERSION", "RETAIN", "NON_RETAIN", "CONSTANT",
   "ARRAY", "REF_TO",
   "BOOL", "BYTE", "CHAR", "WCHAR",
   "SINT", "USINT", "INT", "UINT", "DINT", "UDINT", "LINT", "ULINT",
   "WORD", "DWORD", "LWORD",
   "REAL", "LREAL",
   "STRING", "WSTRING",
   "TIME", "LTIME", "DATE", "DATE_AND_TIME", "DTL", "TIME_OF_DAY", "S5TIME",
   "VOID", "ANY", "POINTER", "VARIANT", "DB_ANY",
   "TON", "TOF", "TP", "TONR", "CTU", "CTD", "CTUD",
   "R_TRIG", "F_TRIG",
   "IEC_TIMER", "IEC_COUNTER"}

\* upper is a trimmed line that is not empty.  ^K\b holds when the first
\* token is K; ^K\b.*\bL\s*$ when moreover the last token is L.
shouldIncreaseIndent(upper) ==
  LET first == upper[1]
      last == upper[Len(upper)]
  IN \/ first \in {"FUNCTION_BLOCK", "FUNCTION", "ORGANIZATION_BLOCK",
                   "DATA_BLOCK", "TYPE", "INTERFACE"}
     \/ first \in {"VAR_INPUT", "VAR_OUTPUT", "VAR_IN_OUT", "VAR_TEMP",
                   "VAR_GLOBAL", "STRUCT"}
     \/ first = "VAR"
     \/ upper = <<"BEGIN">>
     \/ first = "IF" /\ Len(upper) > 1 /\ last = "THEN"
     \/ first = "ELSIF" /\ Len(upper) > 1 /\ last = "THEN"
     \/ upper = <<"ELSE">>
     \/ first = "FOR" /\ Len(upper) > 1 /\ last = "DO"
     \/ first = "WHILE" /\ Len(upper) > 1 /\ last = "DO"
     \/ upper = <<"REPEAT">>
     \/ first = "CASE" /\ Len(upper) > 1 /\ last = "OF"
     \/ first = "REGION"

shouldDecreaseIndent(upper) ==
  LET first == upper[1]
  IN \/ first \in {"END_FUNCTION_BLOCK", "END_FUNCTION",
                   "END_ORGANIZATION_BLOCK", "END_DATA_BLOCK", "END_TYPE",
                   "END_INTERFACE"}
     \/ first \in {"END_VAR", "END_STRUCT"}
     \/ first \in {"END_IF", "END_FOR", "END_WHILE", "END_REPEAT", "END_CASE",
                   "END_REGION"}
     \/ first = "ELSIF"
     \/ first = "ELSE"
     \/ first = "UNTIL"

\* The loop of splitLineComment from position i; stringChar is "" outside a
\* string.  The position of the '//' that starts the comment, 0 when none.
RECURSIVE SplitScan(_, _, _)
SplitScan(line, i, stringChar) ==
  IF i > Len(line) THEN 0
  ELSE IF stringChar # ""
       THEN SplitScan(line, i + 1,
                      IF line[i] = stringChar THEN "" ELSE stringChar)
  ELSE IF line[i] \in {"'", "\""} THEN SplitScan(line, i + 1, line[i])
  ELSE IF line[i] = "//" THEN i
  ELSE SplitScan(line, i + 1, "")

splitLineComment(line) ==
  LET i == SplitScan(line, 1, "")
  IN IF i > 0 THEN [code |-> Upto(line, i - 1), comment |-> From(line, i)]
     ELSE [code |-> line, comment |-> <<>>]

\* A character of the protected code: a token of the code, or the placeholder
\* of the string literal lit.
Tok(t) == [t |-> t, lit |-> <<>>]

Is(c, t) == c.lit = <<>> /\ c.t = t

IsWs(c) == c.lit = <<>> /\ IsSpace(c.t)

\* code.replace(/'[^']*'|"[^"]*"/g, placeholder), from position i
RECURSIVE ProtectFrom(_, _)
ProtectFrom(code, i) ==
  IF i > Len(code) THEN <<>>
  ELSE IF code[i] \in {"'", "\""} /\ IndexFrom(code, code[i], i + 1) > 0
       THEN LET j == IndexFrom(code, code[i], i + 1)
            IN <<[t |-> "STR", lit |-> SubSeq(code, i, j)]>>
               \o ProtectFrom(code, j + 1)
  ELSE <<Tok(code[i])>> \o ProtectFrom(code, i + 1)

protectStrings(code) == ProtectFrom(code, 1)

\* The restore function protectStrings returns.
restore(p) ==
  Flatten([k \in 1..Len(p) |-> IF p[k].lit # <<>> THEN p[k].lit
                               ELSE <<p[k].t>>])

applyKeywordCasing(code) ==
  LET p == protectStrings(code)
  IN restore([k \in 1..Len(p) |->
                IF p[k].lit = <<>> /\ IsIdentifier(p[k].t)
                   /\ ToUpperCase(p[k].t) \in SCL_KEYWORDS
                THEN Tok(ToUpperCase(p[k].t)) ELSE p[k]])

\* The end of the run of \s from position i.
RECURSIVE SkipWs(_, _)
SkipWs(p, i) == IF i <= Len(p) /\ IsWs(p[i]) THEN SkipWs(p, i + 1) ELSE i

\* The end of the run of blanks from position i.
RECURSIVE SkipBlanks(_, _)
SkipBlanks(p, i) ==
  IF i <= Len(p) /\ Is(p[i], " ") THEN SkipBlanks(p, i + 1) ELSE i

\* result.replace(/\s*:=\s*/g, " := "), from position i
RECURSIVE SpaceAssign(_, _)
SpaceAssign(p, i) ==
  IF i > Len(p) THEN <<>>
  ELSE LET j == SkipWs(p, i)
       IN IF j < Len(p) /\ Is(p[j], ":") /\ Is(p[j + 1], "=")
          THEN <<Tok(" "), Tok(":"), Tok("="), Tok(" ")>>
               \o SpaceAssign(p, SkipWs(p, j + 2))
          ELSE IF j > i THEN SubSeq(p, i, j - 1) \o SpaceAssign(p, j)
          ELSE <<p[i]>> \o SpaceAssign(p, i + 1)

\* result.replace(/([A-Za-z_]\w*)\s*:\s*(?!=)/g, "$1 : "), from position i.
\* When a '=' follows the blanks after the colon, \s* gives one blank back.
RECURSIVE SpaceColon(_, _)
SpaceColon(p, i) ==
  IF i > Len(p) THEN <<>>
  ELSE LET j == SkipWs(p, i + 1)
           k == SkipWs(p, j + 1)
           colon == /\ p[i].lit = <<>> /\ IsIdentifier(p[i].t)
                    /\ j <= Len(p) /\ Is(p[j], ":")
           eq == k <= Len(p) /\ Is(p[k], "=")
       IN IF colon /\ ~(eq /\ k = j + 1)
          THEN <<p[i], Tok(" "), Tok(":"), Tok(" ")>>
               \o SpaceColon(p, IF eq THEN k - 1 ELSE k)
          ELSE <<p[i]>> \o SpaceColon(p, i + 1)

\* result.replace(/,\s*/g, ", "), from position i
RECURSIVE SpaceComma(_, _)
SpaceComma(p, i) ==
  IF i > Len(p) THEN <<>>
  ELSE IF Is(p[i], ",")
       THEN <<Tok(","), Tok(" ")>> \o SpaceComma(p, SkipWs(p, i + 1))
  ELSE <<p[i]>> \o SpaceComma(p, i + 1)

\* result.replace(/([^ ]) {2,}/g, "$1 "), from position i
RECURSIVE CollapseSpaces(_, _)
CollapseSpaces(p, i) ==
  IF i > Len(p) THEN <<>>
  ELSE LET j == SkipBlanks(p, i + 1)
       IN IF ~Is(p[i], " ") /\ j - (i + 1) >= 2
          THEN <<p[i], Tok(" ")>> \o CollapseSpaces(p, j)
          ELSE <<p[i]>> \o CollapseSpaces(p, i + 1)

applySpacing(code) ==
  LET p == protectStrings(code)
      r1 == SpaceAssign(p, 1)
      r2 == SpaceColon(r1, 1)
      r3 == SpaceComma(r2, 1)
      r4 == CollapseSpaces(r3, 1)
  IN restore(r4)

\* options.tabSize || 4
indentSize == 4

\* indent(level)
indent(level) == Spaces((IF level > 0 THEN level ELSE 0) * indentSize)

\* /^\d+[\d\s,]*:/ from position i, after the first number
RECURSIVE CaseLabelFrom(_, _)
CaseLabelFrom(line, i) ==
  IF i > Len(line) THEN FALSE
  ELSE IF line[i] = ":" THEN TRUE
  ELSE IF line[i] \in Numbers \/ IsSpace(line[i]) \/ line[i] = ","
       THEN CaseLabelFrom(line, i + 1)
  ELSE FALSE

\* /^CASE\b.*\bOF/ : OF is the only word of the inputs that starts with OF.
CaseOf(upper) ==
  upper[1] = "CASE" /\ \E k \in 2..Len(upper) : upper[k] = "OF"

\* The locals of formatScl before the loop.
FormatStart ==
  [result |-> <<>>, indentLevel |-> 0, inBlockComment |-> FALSE,
   inCase |-> FALSE]

\* The iteration of the loop that lowers the level on every decreasing line,
\* also at level 0.
FormatLineBelowZero(s, rawLine) ==
  LET trimmedRaw == Trim(rawLine)
      cut == splitLineComment(rawLine)
      formattedCode == applySpacing(applyKeywordCasing(cut.code))
      trimmedCode == Trim(formattedCode)
      upper == UpperLine(trimmedCode)
      decrease == shouldDecreaseIndent(upper)
      increase == shouldIncreaseIndent(upper)
      isCaseLabel == /\ s.inCase /\ trimmedCode[1] \in Numbers
                     /\ CaseLabelFrom(trimmedCode, 2)
      level == IF decrease THEN s.indentLevel - 1
               ELSE s.indentLevel
      inCase == IF upper[1] = "END_CASE" THEN FALSE
                ELSE IF CaseOf(upper) THEN TRUE ELSE s.inCase
      formatted == indent(IF isCaseLabel THEN level + 1 ELSE level)
                   \o trimmedCode
                   \o (IF cut.comment # <<>>
                       THEN <<" ", " ">> \o Trim(cut.comment) ELSE <<>>)
  IN IF s.inBlockComment
     THEN [s EXCEPT !.result = Append(@, rawLine),
                    !.inBlockComment = ~Includes(rawLine, "*)")]
     ELSE IF trimmedRaw = <<>> THEN [s EXCEPT !.result = Append(@, <<>>)]
     ELSE IF trimmedRaw[1] = "(*" /\ ~Includes(trimmedRaw, "*)")
     THEN [s EXCEPT !.result = Append(@, indent(s.indentLevel) \o trimmedRaw),
                    !.inBlockComment = TRUE]
     ELSE IF trimmedRaw[1] = "{"
     THEN [s EXCEPT !.result = Append(@, indent(s.indentLevel) \o trimmedRaw)]
     ELSE IF trimmedCode = <<>> /\ cut.comment # <<>>
     THEN [s EXCEPT !.result = Append(@, indent(s.indentLevel)
                                         \o Trim(cut.comment))]
     ELSE IF trimmedCode = <<>> THEN [s EXCEPT !.result = Append(@, <<>>)]
     ELSE [s EXCEPT !.result = Append(@, formatted),
                    !.indentLevel = IF increase THEN level + 1 ELSE level,
                    !.inCase = inCase]

\* One iteration of the loop of formatScl, on rawLine.
FormatLine(s, rawLine) ==
  LET trimmedRaw == Trim(rawLine)
      cut == splitLineComment(rawLine)
      formattedCode == applySpacing(applyKeywordCasing(cut.code))
      trimmedCode == Trim(formattedCode)
      upper == UpperLine(trimmedCode)
      decrease == shouldDecreaseIndent(upper)
      increase == shouldIncreaseIndent(upper)
      isCaseLabel == /\ s.inCase /\ trimmedCode[1] \in Numbers
                     /\ CaseLabelFrom(trimmedCode, 2)
      level == IF decrease /\ s.indentLevel > 0 THEN s.indentLevel - 1
               ELSE s.indentLevel
      inCase == IF upper[1] = "END_CASE" THEN FALSE
                ELSE IF CaseOf(upper) THEN TRUE ELSE s.inCase
      formatted == indent(IF isCaseLabel THEN level + 1 ELSE level)
                   \o trimmedCode
                   \o (IF cut.comment # <<>>
                       THEN <<" ", " ">> \o Trim(cut.comment) ELSE <<>>)
  IN IF s.inBlockComment
     THEN [s EXCEPT !.result = Append(@, rawLine),
                    !.inBlockComment = ~Includes(rawLine, "*)")]
     ELSE IF trimmedRaw = <<>> THEN [s EXCEPT !.result = Append(@, <<>>)]
     ELSE IF trimmedRaw[1] = "(*" /\ ~Includes(trimmedRaw, "*)")
     THEN [s EXCEPT !.result = Append(@, indent(s.indentLevel) \o trimmedRaw),
                    !.inBlockComment = TRUE]
     ELSE IF trimmedRaw[1] = "{"
     THEN [s EXCEPT !.result = Append(@, indent(s.indentLevel) \o trimmedRaw)]
     ELSE IF trimmedCode = <<>> /\ cut.comment # <<>>
     THEN [s EXCEPT !.result = Append(@, indent(s.indentLevel)
                                         \o Trim(cut.comment))]
     ELSE IF trimmedCode = <<>> THEN [s EXCEPT !.result = Append(@, <<>>)]
     ELSE [s EXCEPT !.result = Append(@, formatted),
                    !.indentLevel = IF increase THEN level + 1 ELSE level,
                    !.inCase = inCase]

\* The loop of formatScl from line i.
RECURSIVE FormatFrom(_, _, _)
FormatFrom(s, lines, i) ==
  IF i > Len(lines) THEN s
  ELSE FormatFrom(FormatLine(s, lines[i]), lines, i + 1)

\* formatScl(text, opts), with the options of provideDocumentFormattingEdits;
\* the lines of the result, before the join.
formatScl(lines) == FormatFrom(FormatStart, lines, 1).result

\* The texts of at most n lines over the lines of alphabet.
TextsOver(alphabet, n) == UNION {[1..k -> alphabet] : k \in 0..n}

\* The workspace with the one document a.scl open, of text txt.
OneDocument(txt) ==
  [u \in URIs |-> IF u = "a.scl" THEN [isOpen |-> TRUE, text |-> txt]
                  ELSE [isOpen |-> FALSE, text |-> <<>>]]

\* provideDocumentFormattingEdits(document, options)
FormatDocument(uri) ==
  /\ documents[uri].isOpen
  /\ reply = <<>>
  /\ reply' = <<"format", formatScl(documents[uri].text)>>
  /\ UNCHANGED <<parseVars, editorVars>>

-----------------------------------------------------------------------------
(* C24: the indentation of formatScl.                                      *)

LineFB == Named("FUNCTION_BLOCK", "A")

LineIfThen == <<"IF", " ", "#", "X", " ", "THEN">>

IndentLines ==
  {LineFB, <<"END_FUNCTION_BLOCK">>, <<"VAR">>, <<"END_VAR">>, <<"BEGIN">>,
   LineIfThen, <<"END_IF", ";">>}

MaxIndentLines == 4

InitIndent ==
  \E txt \in TextsOver(IndentLines, MaxIndentLines) : Activate(OneDocument(txt))

NextIndent == FormatDocument("a.scl")

SpecIndent == InitIndent /\ [][NextIndent]_vars

\* The blanks a line starts with.
RECURSIVE Indentation(_)
Indentation(line) ==
  IF line # <<>> /\ Head(line) = " " THEN 1 + Indentation(Tail(line)) ELSE 0

\* Every BEGIN line lies in a block, outside its sections and statements.
BeginsInBlocks(txt) ==
  \A i \in 1..Len(txt) :
    IsBegin(txt[i])
      => /\ OpenerAt(txt, BlockOpeners, i) > 0
         /\ OpenerAt(txt, SectionOpeners, i) = 0
         /\ OpenerAt(txt, ControlOpeners, i) = 0

\* C24: for an input whose openers and closers are balanced, formatScl emits
\* every closer line at the indentation of its matching opener line.
C24_CloserAtIndentOfOpener ==
  LET txt == documents["a.scl"].text
  IN reply # <<>> /\ Balanced(txt) /\ BeginsInBlocks(txt)
     => \A family \in {BlockOpeners, SectionOpeners, ControlOpeners} :
          \A pair \in Matching(txt, family).pairs :
            Indentation(reply[2][pair[2]]) = Indentation(reply[2][pair[1]])


-----------------------------------------------------------------------------
(* C25: what formatScl leaves alone.                                       *)

LineComment == <<"(*", " ", "if", " ", "*)">>

LineCommentAfterCode == <<"#", "X", ":", "=", "1", ";", " ", "(*", " ", "if">>

LineCommentStart == <<"(*", " ", "if">>

LineCommentBody == <<"if", " ", " ", "then">>

LineCommentEnd == <<"*)">>

LineString == <<"#", "X", ":", "=", "'", "if", " ", " ", "then", "'", ";">>

LineSlashes == <<"#", "X", ";", " ", "//", " ", "if", " ", " ", "then">>

LinePragma == <<"{", " ", "if", ":", "=", "1", " ", "}">>

FrameLines ==
  {LineComment, LineCommentAfterCode, LineCommentStart, LineCommentBody,
   LineCommentEnd, LineString, LineSlashes, LinePragma}

MaxFrameLines == 3

InitFrame ==
  \E txt \in TextsOver(FrameLines, MaxFrameLines) : Activate(OneDocument(txt))

NextFrame == FormatDocument("a.scl")

SpecFrame == InitFrame /\ [][NextFrame]_vars

\* A line read from position i in the given mode ("code", "block": in a
\* (* *) comment, "line": in a // comment, or the quote of the string literal
\* that is open): the tokens of the comments and the string literals as they
\* are, the other tokens without the blanks and in upper case.
RECURSIVE Kept(_, _, _)
Kept(line, i, mode) ==
  IF i > Len(line) THEN <<>>
  ELSE LET t == line[i]
       IN IF mode = "line" THEN <<t>> \o Kept(line, i + 1, mode)
          ELSE IF mode = "block"
          THEN <<t>> \o Kept(line, i + 1, IF t = "*)" THEN "code" ELSE mode)
          ELSE IF mode # "code"
          THEN <<t>> \o Kept(line, i + 1, IF t = mode THEN "code" ELSE mode)
          ELSE IF t = "(*" THEN <<t>> \o Kept(line, i + 1, "block")
          ELSE IF t = "//" THEN <<t>> \o Kept(line, i + 1, "line")
          ELSE IF t \in {"'", "\""} THEN <<t>> \o Kept(line, i + 1, t)
          ELSE IF IsSpace(t) THEN Kept(line, i + 1, mode)
          ELSE <<ToUpperCase(t)>> \o Kept(line, i + 1, mode)

\* A (* *) comment is open at the end of the line read in the given mode.
RECURSIVE OpenAtEnd(_, _, _)
OpenAtEnd(line, i, mode) ==
  IF i > Len(line) THEN mode = "block"
  ELSE LET t == line[i]
       IN IF mode = "line" THEN FALSE
          ELSE IF mode = "block"
          THEN OpenAtEnd(line, i + 1, IF t = "*)" THEN "code" ELSE mode)
          ELSE IF mode # "code"
          THEN OpenAtEnd(line, i + 1, IF t = mode THEN "code" ELSE mode)
          ELSE IF t = "(*" THEN OpenAtEnd(line, i + 1, "block")
          ELSE IF t = "//" THEN FALSE
          ELSE IF t \in {"'", "\""} THEN OpenAtEnd(line, i + 1, t)
          ELSE OpenAtEnd(line, i + 1, mode)

IsPragmaLine(line) == Trim(line) # <<>> /\ Trim(line)[1] = "{"

\* The mode line i of the text starts in.
RECURSIVE ModeAt(_, _)
ModeAt(txt, i) ==
  IF i = 1 THEN "code"
  ELSE IF ModeAt(txt, i - 1) = "code" /\ IsPragmaLine(txt[i - 1]) THEN "code"
  ELSE IF OpenAtEnd(txt[i - 1], 1, ModeAt(txt, i - 1)) THEN "block"
  ELSE "code"

\* What the formatter has to keep of the line, which starts in the given mode.
KeptOf(line, mode) ==
  IF mode = "code" /\ IsPragmaLine(line) THEN Trim(line)
  ELSE Kept(line, 1, mode)

\* C25: formatScl emits line for line; on every line the string literals, the
\* // comment, the (* *) comments (also the lines of a comment that runs over
\* several lines, wherever it starts) and a pragma line are emitted as they
\* are, and outside them only blanks and the case of words change.
C25_CommentsStringsPragmasKept ==
  LET txt == documents["a.scl"].text
  IN reply # <<>>
     => /\ Len(reply[2]) = Len(txt)
        /\ \A i \in 1..Len(txt) :
             KeptOf(reply[2][i], ModeAt(txt, i)) = KeptOf(txt[i], ModeAt(txt, i))


-----------------------------------------------------------------------------
(* SclCodeActionProvider (src/src/quickFixes.ts).                          *)

\* document.lineAt(i).text, for the 0-based line i
LineAt(lines, i) == lines[i + 1]

\* The loop of fixMissingVersion from line i: the insert position.
RECURSIVE VersionLineFrom(_, _, _)
VersionLineFrom(lines, blockLine, i) ==
  IF /\ i < blockLine + 5 /\ i < Len(lines)
     /\ Trim(LineAt(lines, i)) # <<>> /\ Trim(LineAt(lines, i))[1] = "{"
  THEN VersionLineFrom(lines, blockLine, i + 1)
  ELSE i

fixMissingVersion(lines, diag) ==
  [title |-> <<"Add VERSION : 0.1">>, diagnostics |-> <<diag>>,
   isPreferred |-> TRUE,
   edit |-> <<[kind |-> "insert",
               line |-> VersionLineFrom(lines, diag.range.line,
                                        diag.range.line + 1),
               col |-> 0,
               newText |-> <<<<"VERSION", " ", ":", " ", "0.1">>>>]>>]

fixMissingPragma(lines, diag) ==
  [title |-> <<"Add { S7_Optimized_Access := 'TRUE' }">>,
   diagnostics |-> <<diag>>, isPreferred |-> TRUE,
   edit |-> <<[kind |-> "insert", line |-> diag.range.line + 1, col |-> 0,
               newText |-> <<<<"{", " ", "S7_Optimized_Access", " ", ":", "=",
                               " ", "'", "TRUE", "'", " ", "}">>>>]>>]

\* The loop of findEndCase from line i at the given depth.
RECURSIVE FindEndCaseFrom(_, _, _, _)
FindEndCaseFrom(lines, caseLine, i, depth) ==
  IF i >= Len(lines) THEN caseLine
  ELSE LET upper == UpperLine(Trim(LineAt(lines, i)))
           first == IF upper = <<>> THEN "" ELSE upper[1]
           d1 == IF first = "CASE" THEN depth + 1 ELSE depth
           d2 == IF first = "END_CASE" THEN d1 - 1 ELSE d1
       IN IF first = "END_CASE" /\ d2 = 0 THEN i
          ELSE FindEndCaseFrom(lines, caseLine, i + 1, d2)

findEndCase(lines, caseLine) == FindEndCaseFrom(lines, caseLine, caseLine, 0)

\* line.match(/^(\s*)/)
getIndent(lines, line) ==
  LET l == LineAt(lines, line)
  IN Upto(l, Len(l) - Len(TrimLeft(l)))

fixCaseWithoutElse(lines, diag) ==
  LET caseLine == diag.range.line
      caseIndent == getIndent(lines, caseLine)
      endCaseLine == findEndCase(lines, caseLine)
  IN [title |-> <<"Add ELSE branch">>, diagnostics |-> <<diag>>,
      isPreferred |-> FALSE,
      edit |-> <<[kind |-> "insert", line |-> endCaseLine, col |-> 0,
                  newText |-> <<caseIndent \o Spaces(4) \o <<"ELSE">>,
                                caseIndent \o Spaces(8) \o <<";">>>>]>>]

\* diag.message.match(/'([A-Z]+_)\.\.\.'$/), on the messages runRules makes
PrefixMatch(message) ==
  IF Len(message) = 5 /\ message[5] = "...'"
     /\ message[4] \in {"FB_", "FC_", "DB_"}
  THEN message[4] ELSE ""

\* The matches of the regular expression "name" in the line, from position i:
\* the positions of the opening quotes.
RECURSIVE QuotedAt(_, _, _)
QuotedAt(line, name, i) ==
  LET a == IndexFrom(line, "\"", i)
      b == IF a = 0 THEN 0 ELSE IndexFrom(line, "\"", a + 1)
  IN IF a = 0 \/ b = 0 THEN <<>>
     ELSE IF Join(SubSeq(line, a + 1, b - 1)) = name
     THEN <<[from |-> a, to |-> b]>> \o QuotedAt(line, name, b + 1)
     ELSE QuotedAt(line, name, a + 1)

\* fixNamingConvention: <<>> stands for undefined.
fixNamingConvention(lines, diag) ==
  LET currentName == ExtractNameFrom(LineAt(lines, diag.range.line), 1)
      prefix == PrefixMatch(diag.message)
      newName == prefix \o currentName
      replaceIn(l) ==
        LET ms == QuotedAt(lines[l], currentName, 1)
        IN [k \in 1..Len(ms) |->
              [kind |-> "replace", line |-> l - 1, col |-> ms[k].from,
               endCol |-> ms[k].to,
               newText |-> <<<<"\"", newName, "\"">>>>]]
  IN IF currentName = "" \/ prefix = "" THEN <<>>
     ELSE <<[title |-> <<"Rename to \"", newName, "\"">>,
             diagnostics |-> <<diag>>, isPreferred |-> FALSE,
             edit |-> Flatten([l \in 1..Len(lines) |-> replaceIn(l)])]>>

\* provideCodeActions(document, _range, context), for context.diagnostics = diags
provideCodeActions(lines, diags) ==
  Flatten([k \in 1..Len(diags) |->
    LET diag == diags[k]
    IN IF diag.source # "SCL" THEN <<>>
       ELSE IF diag.code = "SCL102" THEN <<fixMissingVersion(lines, diag)>>
       ELSE IF diag.code = "SCL103" THEN <<fixMissingPragma(lines, diag)>>
       ELSE IF diag.code = "SCL104" THEN <<fixCaseWithoutElse(lines, diag)>>
       ELSE IF diag.code = "SCL201" THEN fixNamingConvention(lines, diag)
       ELSE <<>>])

\* The editor asks for the code actions of the diagnostics published for uri.
ProvideCodeActions(uri) ==
  /\ documents[uri].isOpen
  /\ diagnosticCollection[uri] # <<>>
  /\ reply = <<>>
  /\ reply' = <<"codeActions",
                provideCodeActions(documents[uri].text,
                                   diagnosticCollection[uri][1])>>
  /\ UNCHANGED <<parseVars, editorVars>>

-----------------------------------------------------------------------------
(* C26: the quick fix of SCL104.                                           *)

LineEndCaseAfterComment ==
  <<"(*", " ", "X", " ", "*)", " ", "END_CASE", ";">>

QuickFixLines ==
  {LineCase, <<"ELSE">>, <<"END_CASE", ";">>, LineEndCaseAfterComment,
   <<"END_FUNCTION_BLOCK">>}

MaxQuickFixLines == 4

InitQuickFix ==
  \E body \in TextsOver(QuickFixLines, MaxQuickFixLines) :
    Activate(OneDocument(<<LineFB, <<"BEGIN">>>> \o body))

NextQuickFix == ProvideCodeActions("a.scl")

SpecQuickFix == InitQuickFix /\ [][NextQuickFix]_vars

\* The line without its (* *) comments.
RECURSIVE CodeOf(_, _, _)
CodeOf(raw, i, inComment) ==
  IF i > Len(raw) THEN <<>>
  ELSE IF inComment THEN CodeOf(raw, i + 1, raw[i] # "*)")
  ELSE IF raw[i] = "(*" THEN CodeOf(raw, i + 1, TRUE)
  ELSE <<raw[i]>> \o CodeOf(raw, i + 1, FALSE)

\* The keyword the statement on the line starts with.
StatementKeyword(raw) == LineKeyword(CodeOf(raw, 1, FALSE))

\* The END_CASE line that closes the CASE opened before line i at the given
\* depth of nested CASE statements; 0 when there is none.
RECURSIVE EndCaseFrom(_, _, _)
EndCaseFrom(txt, i, depth) ==
  IF i > Len(txt) THEN 0
  ELSE IF StatementKeyword(txt[i]) = "CASE" THEN EndCaseFrom(txt, i + 1, depth + 1)
  ELSE IF StatementKeyword(txt[i]) = "END_CASE"
       THEN IF depth = 0 THEN i ELSE EndCaseFrom(txt, i + 1, depth - 1)
  ELSE EndCaseFrom(txt, i + 1, depth)

\* C26: the 'Add ELSE branch' action of an SCL104 diagnostic on the CASE at
\* line c inserts its text at the line of the END_CASE that closes this CASE,
\* whatever CASE ... END_CASE pairs lie in between.
C26_ElseInsertedAtMatchingEndCase ==
  LET txt == documents["a.scl"].text
  IN reply # <<>>
     => \A k \in 1..Len(reply[2]) :
          LET action == reply[2][k]
              c == action.diagnostics[1].range.line + 1
              e == EndCaseFrom(txt, c + 1, 0)
          IN action.diagnostics[1].code = "SCL104" /\ e > 0
               => action.edit[1].line + 1 = e


-----------------------------------------------------------------------------
(* SclDefinitionProvider (src/src/definitionProvider.ts).  A position is a  *)
(* line and the token the cursor is in.                                    *)

\* variables.find(v => v.name.toLowerCase() === lower), from index k
RECURSIVE FindVariableFrom(_, _, _)
FindVariableFrom(vs, lower, k) ==
  IF k > Len(vs) THEN <<>>
  ELSE IF ToLowerCase(vs[k].name) = lower
       THEN <<[line |-> vs[k].line, col |-> vs[k].col]>>
  ELSE FindVariableFrom(vs, lower, k + 1)

\* findVariable: <<>> stands for undefined.
findVariable(vs, name) == FindVariableFrom(vs, ToLowerCase(name), 1)

\* blocks.find(b => b.name === name), from index k
RECURSIVE FindBlockNamedFrom(_, _, _)
FindBlockNamedFrom(bs, name, k) ==
  IF k > Len(bs) THEN <<>>
  ELSE IF bs[k].name = name THEN <<[line |-> bs[k].line, col |-> 0]>>
  ELSE FindBlockNamedFrom(bs, name, k + 1)

\* findBlock: <<>> stands for undefined.
findBlock(bs, name) == FindBlockNamedFrom(bs, name, 1)

\* The last double quote at or before position i, 0 when none.
RECURSIVE QuoteBefore(_, _)
QuoteBefore(line, i) ==
  IF i < 1 THEN 0
  ELSE IF line[i] = "\"" THEN i
  ELSE QuoteBefore(line, i - 1)

\* getQuotedName: "" stands for undefined.
getQuotedName(line, charPos) ==
  LET start == QuoteBefore(line, charPos)
      end == IF start = 0 THEN 0
             ELSE IndexFrom(line, "\"",
                            IF charPos > start + 1 THEN charPos ELSE start + 1)
  IN IF start = 0 \/ end = 0 THEN ""
     ELSE Join(SubSeq(line, start + 1, end - 1))

\* document.getWordRangeAtPosition(position, /#[A-Za-z_]\w*/): the name after
\* the '#', "" when the position is in no match.
HashNameAt(line, char) ==
  IF line[char] = "#" /\ char < Len(line) /\ IsIdentifier(line[char + 1])
  THEN line[char + 1]
  ELSE IF char > 1 /\ line[char - 1] = "#" /\ IsIdentifier(line[char])
  THEN line[char]
  ELSE ""

\* document.getWordRangeAtPosition(position, /[A-Za-z_]\w*/)
WordAt(line, char) == IF IsIdentifier(line[char]) THEN line[char] ELSE ""

\* provideDefinition(document, position)
provideDefinition(lines, position) ==
  LET result == parse(lines)
      line == LineAt(lines, position.line)
      varName == HashNameAt(line, position.character)
      quoted == getQuotedName(line, position.character)
      word == WordAt(line, position.character)
  IN IF varName # "" THEN findVariable(result.variables, varName)
     ELSE IF quoted # "" THEN findBlock(result.blocks, quoted)
     ELSE IF word # "" THEN findVariable(result.variables, word)
     ELSE <<>>

\* The editor asks for the definition at a position of the document.
ProvideDefinition(uri, position) ==
  /\ documents[uri].isOpen
  /\ position.line < Len(documents[uri].text)
  /\ position.character \in 1..Len(LineAt(documents[uri].text, position.line))
  /\ reply = <<>>
  /\ reply' = <<"definition", position,
                provideDefinition(documents[uri].text, position)>>
  /\ UNCHANGED <<parseVars, editorVars>>

-----------------------------------------------------------------------------
(* C27: go to definition.                                                  *)

LineUseLowerX == <<"#", "x", " ", ":", "=", " ", "1", ";">>

LineCallA == <<"\"", "A", "\"", "(", ")", ";">>

LineCallLowerA == <<"\"", "a", "\"", "(", ")", ";">>

DefinitionLines == {LineUseX, LineUseLowerX, LineCallA, LineCallLowerA}

MaxDefinitionLines == 2

InitDefinition ==
  \E body \in TextsOver(DefinitionLines, MaxDefinitionLines) :
    Activate(OneDocument(<<LineFB, <<"VAR">>, LineDeclX, <<"END_VAR">>,
                           <<"BEGIN">>>> \o body))

NextDefinition ==
  \E l \in 0..(Len(documents["a.scl"].text) - 1) :
    \E c \in 1..Len(LineAt(documents["a.scl"].text, l)) :
      ProvideDefinition("a.scl", [line |-> l, character |-> c])

SpecDefinition == InitDefinition /\ [][NextDefinition]_vars

\* The lines that open a block named name, the names compared ignoring case.
BlocksNamed(txt, name) ==
  {j \in 1..Len(txt) :
     /\ IsOpener(txt[j], BlockOpeners)
     /\ ToLowerCase(QuotedName(txt[j])) = ToLowerCase(name)}

\* The lines that declare a variable named name, the names compared ignoring
\* case.
VariablesNamed(txt, name) ==
  {j \in 1..Len(txt) :
     /\ IsDeclarationAt(txt, j)
     /\ ToLowerCase(txt[j][1]) = ToLowerCase(name)}

\* C27: a request on the name of a reference #name resolves to a declaration
\* of a variable of that name, and a request on the name of a reference
\* "name" to the opener of a block of that name, the names compared ignoring
\* case in both.
C27_NamesResolvedIgnoringCase ==
  LET txt == documents["a.scl"].text
  IN reply # <<>>
     => LET line == txt[reply[2].line + 1]
            c == reply[2].character
            found == reply[3]
        IN /\ c > 1 /\ line[c - 1] = "#" /\ VariablesNamed(txt, line[c]) # {}
                => /\ found # <<>>
                   /\ found[1].line + 1 \in VariablesNamed(txt, line[c])
           /\ c > 1 /\ c < Len(line) /\ line[c - 1] = "\""
              /\ line[c + 1] = "\"" /\ BlocksNamed(txt, line[c]) # {}
                => /\ found # <<>>
                   /\ found[1].line + 1 \in BlocksNamed(txt, line[c])


-----------------------------------------------------------------------------
(* C28 - C30: the three nesting stacks.                                    *)

FamilyKeywords(family) == family \cup ClosersOf(family)

\* C28: the line a step scans moves the stack of its own family only: a block
\* opener or closer leaves varStack and controlStack as they are, a variable
\* section opener or closer leaves blockStack and controlStack, a control-flow
\* opener or closer leaves blockStack and varStack.  So the frames left open
\* inside a block stay on their stacks when the block closes.
C28_StacksAreIndependent ==
  [][Len(text') = Len(text) + 1
       => LET kw == LineKeyword(text'[Len(text')])
          IN /\ kw \in FamilyKeywords(BlockOpeners)
                  => UNCHANGED <<varStack, controlStack>>
             /\ kw \in FamilyKeywords(SectionOpeners)
                  => UNCHANGED <<blockStack, controlStack>>
             /\ kw \in FamilyKeywords(ControlOpeners)
                  => UNCHANGED <<blockStack, varStack>>]_vars

\* A block was closed by its closer with a variable section open inside it.
C28_Witness ==
  /\ pc = "scan"
  /\ Len(text) = 3
  /\ LineKeyword(text[3]) = "END_FUNCTION_BLOCK"
  /\ blockStack = <<>>
  /\ unmatchedCloses = <<>>
  /\ Len(varStack) = 1

\* Closers over frames of another kind, in the three families.
CloserLines ==
  {Named("FUNCTION_BLOCK", "A"), <<"END_FUNCTION">>, <<"END_FUNCTION_BLOCK">>,
   <<"VAR">>, <<"END_STRUCT">>, <<"END_VAR">>, <<"BEGIN">>, LineIf,
   <<"END_FOR", ";">>}

MaxCloserLines == 4

NextClosers ==
  \/ \E raw \in CloserLines : Len(text) < MaxCloserLines /\ ScanLine(raw)
  \/ EndOfInput

SpecClosers == Init /\ [][NextClosers]_vars

\* The closer kw does not close the frame on top of the stack.
Mismatch(stack, kw) ==
  stack = <<>> \/ CloserOf(stack[Len(stack)].keyword) # kw

\* C29: a closer that is scanned while the stack of its family is empty, or
\* while the frame on top is of another opener kind, is appended to
\* unmatchedCloses and leaves the stack as it is; in each of the three
\* families.
C29_MismatchedCloserIsUnmatched ==
  [][Len(text') = Len(text) + 1
       => LET kw == LineKeyword(text'[Len(text')])
              entry == [keyword |-> kw, line |-> Len(text), col |-> 0]
          IN /\ kw \in ClosersOf(BlockOpeners) /\ Mismatch(blockStack, kw)
                  => /\ blockStack' = blockStack
                     /\ unmatchedCloses' = Append(unmatchedCloses, entry)
             /\ kw \in ClosersOf(SectionOpeners) /\ Mismatch(varStack, kw)
                  => /\ varStack' = varStack
                     /\ unmatchedCloses' = Append(unmatchedCloses, entry)
             /\ kw \in ClosersOf(ControlOpeners) /\ InCode(text', Len(text'))
                /\ Mismatch(controlStack, kw)
                  => /\ controlStack' = controlStack
                     /\ unmatchedCloses' = Append(unmatchedCloses, entry)]_vars

\* The lines of the frames of a family that unmatchedOpens reports.
ReportedOpen(family) == {line + 1 : line \in RecordedOpens(family)}

\* C30: while parse scans, a step leaves each stack as it is, pushes the frame
\* of the line it scans, or pops the top frame, and reports no opener.  At the
\* end of the input unmatchedOpens is the frames still on blockStack, varStack
\* and controlStack, in this order and each stack from bottom to top: no frame
\* is reported twice, the block and section openers the text leaves open are
\* all reported and no closed one is.
C30_OpensLeftOnStacksReportedOnce ==
  /\ [](pc = "done"
          => /\ unmatchedOpens = blockStack \o varStack \o controlStack
             /\ \A i, j \in 1..Len(unmatchedOpens) :
                  unmatchedOpens[i] = unmatchedOpens[j] => i = j
             /\ \A family \in {BlockOpeners, SectionOpeners} :
                  ReportedOpen(family) = ToSet(Matching(text, family).open))
  /\ [][Len(text') = Len(text) + 1
          => /\ unmatchedOpens' = <<>>
             /\ \A stack \in {<<blockStack, blockStack'>>,
                              <<varStack, varStack'>>,
                              <<controlStack, controlStack'>>} :
                  \/ stack[2] = stack[1]
                  \/ /\ stack[1] # <<>>
                     /\ stack[2] = SubSeq(stack[1], 1, Len(stack[1]) - 1)
                  \/ \E kw \in BlockOpeners \cup SectionOpeners
                                 \cup ControlOpeners :
                       stack[2] = Append(stack[1],
                                         [keyword |-> kw, line |-> Len(text),
                                          col |-> 0])]_vars

\* The input ended with one frame of each family open.
C30_Witness ==
  /\ pc = "done"
  /\ Len(unmatchedOpens) = 3
  /\ \A family \in {BlockOpeners, SectionOpeners, ControlOpeners} :
       \E k \in 1..3 : unmatchedOpens[k].keyword \in family

-----------------------------------------------------------------------------
(* C31: declarations and the after-BEGIN flag.                             *)

\* Declarations before and after BEGIN, in blocks that open and close.
BeginLines ==
  {Named("FUNCTION_BLOCK", "A"), <<"END_FUNCTION_BLOCK">>, <<"VAR">>,
   <<"END_VAR">>, <<"BEGIN">>, LineDeclX}

MaxBeginLines == 5

NextBegin ==
  \/ \E raw \in BeginLines : Len(text) < MaxBeginLines /\ ScanLine(raw)
  \/ EndOfInput

SpecBegin == Init /\ [][NextBegin]_vars

\* The line is a block closer that pops the frame on top of the block stack.
MatchedBlockCloser(raw) ==
  /\ IsCloser(raw, BlockOpeners)
  /\ blockStack # <<>>
  /\ CloserOf(Top(blockStack).keyword) = LineKeyword(raw)

\* C31: a line scanned while the after-BEGIN flag is set records no
\* VariableDecl, even when a variable section is open on the section stack; a
\* BEGIN line sets the flag, and the flag, once set, is cleared only by a line
\* that is a block opener or a block closer matching the top of the block
\* stack.
C31_NoDeclarationAfterBegin ==
  [][(pc = "scan" /\ Len(text') = Len(text) + 1) =>
       LET raw == text'[Len(text')]
       IN /\ afterBegin => variables' = variables
          /\ IsBegin(raw) => afterBegin'
          /\ (afterBegin /\ ~afterBegin') =>
               (IsOpener(raw, BlockOpeners) \/ MatchedBlockCloser(raw))]_vars

\* A declaration line was scanned after BEGIN with a variable section open, and
\* nothing was recorded.
C31_Witness ==
  /\ pc = "scan"
  /\ afterBegin
  /\ varStack # <<>>
  /\ currentVarSection # ""
  /\ Len(text) >= 3
  /\ text[Len(text)] = LineDeclX
  /\ IsBegin(text[Len(text) - 1])
  /\ variables = <<>>

-----------------------------------------------------------------------------
(* C32: the current variable section and the section stack.                *)

\* The keyword of the frame on top of the stack, "" for the empty stack.
TopKeyword(stack) == IF stack = <<>> THEN "" ELSE Top(stack).keyword

\* C32: after every scanned line currentVarSection is the keyword of the top
\* frame of the variable-section stack, and empty exactly when the stack is
\* empty; a section closer that pops a frame makes the frame below the current
\* section, and every declaration recorded is tagged with the keyword of the
\* frame that is on top when its line is scanned.
C32_CurrentSectionIsTopOfStack ==
  /\ [](currentVarSection = TopKeyword(varStack))
  /\ [][(pc = "scan" /\ Len(text') = Len(text) + 1) =>
          LET raw == text'[Len(text')]
          IN /\ (IsCloser(raw, SectionOpeners) /\ varStack # <<>>) =>
                  /\ varStack' = Pop(varStack)
                  /\ currentVarSection' = TopKeyword(Pop(varStack))
             /\ Len(variables') > Len(variables) =>
                  /\ varStack # <<>>
                  /\ variables'[Len(variables')].section
                       = Top(varStack).keyword]_vars

\* A member declared after the nested STRUCT closed is tagged with the outer
\* section.
C32_Witness ==
  /\ text = <<<<"VAR">>, <<"STRUCT">>, <<"END_STRUCT">>, LineDeclX>>
  /\ Len(variables) = 1
  /\ variables[1].section = "VAR"
  /\ currentVarSection = "VAR"

-----------------------------------------------------------------------------
(* C33: the lines inside a comment that spans lines.                       *)

LineCommentOpens == <<"(*", " ", "x">>

LineCommentCloses == <<"END_VAR", " ", "*)", " ", "VAR">>

\* A comment that spans lines around openers, closers, BEGIN, a declaration
\* and a reference.
SkipLines ==
  {LineCommentOpens, LineCommentCloses, Named("FUNCTION_BLOCK", "A"),
   <<"END_FUNCTION_BLOCK">>, <<"VAR">>, <<"BEGIN">>, LineDeclX, LineUseX,
   LineIf}

MaxSkipLines == 4

NextSkip ==
  \/ \E raw \in SkipLines : Len(text) < MaxSkipLines /\ ScanLine(raw)
  \/ EndOfInput

SpecSkip == Init /\ [][NextSkip]_vars

\* The text of the line after its first terminator.
AfterTerminator(raw) == From(raw, IndexOf(raw, "*)") + 1)

\* C33: while a comment that spans lines is open, a line without the
\* terminator '*)' changes no stack, no list of the result, no usage and no
\* flag, whatever the line holds; the line with the terminator has the effect
\* of its text after '*)' scanned outside a comment.
C33_CommentLinesChangeNothing ==
  [][(pc = "scan" /\ Len(text') = Len(text) + 1 /\ inBlockComment) =>
       LET raw == text'[Len(text')]
       IN IF ~Includes(raw, "*)")
          THEN UNCHANGED <<blocks, variables, usedVariables, unmatchedOpens,
                           unmatchedCloses, exitOutsideLoop, blockStack,
                           varStack, controlStack, currentBlock,
                           currentVarSection, inBlockComment, afterBegin>>
          ELSE ScanState' = LoopBody([ScanState EXCEPT !.inBlockComment = FALSE],
                                     AfterTerminator(raw), lineIdx)]_vars

\* A block opener inside the comment was skipped, and the VAR after the
\* terminator was scanned while the END_VAR before it was not.
C33_Witness ==
  /\ text = <<LineCommentOpens, Named("FUNCTION_BLOCK", "A"), LineCommentCloses>>
  /\ blocks = <<>>
  /\ blockStack = <<>>
  /\ unmatchedCloses = <<>>
  /\ varStack = <<StackEntry("VAR", 2)>>
  /\ ~inBlockComment

-----------------------------------------------------------------------------
(* C34: who writes endLine.                                                *)

\* The frame of the stack that the opener of block b pushed.
FrameOf(stack, b) ==
  {f \in ToSet(stack) : f.line = b.line /\ f.keyword = b.type}

\* C34: endLine is written only by a block closer that matches the top of the
\* block stack, and only on the BlockDecl whose frame that closer pops, with
\* the line of the closer; an endLine that is set is greater than the block's
\* start line; and a block whose frame is still on the block stack, or is
\* reported in unmatchedOpens at the end of the input, has endLine = -1.
C34_EndLineOnlyByOwnCloser ==
  /\ [][\A k \in 1..Len(blocks) :
          (Len(blocks') >= k /\ blocks'[k].endLine # blocks[k].endLine) =>
            /\ pc = "scan" /\ Len(text') = Len(text) + 1
            /\ MatchedBlockCloser(text'[Len(text')])
            /\ blockStack' = Pop(blockStack)
            /\ Top(blockStack) \in FrameOf(blockStack, blocks[k])
            /\ blocks[k].endLine = -1
            /\ blocks'[k].endLine = lineIdx]_vars
  /\ [](\A b \in ToSet(blocks) :
          /\ b.endLine # -1 => b.endLine > b.line
          /\ FrameOf(blockStack, b) # {} => b.endLine = -1
          /\ (pc = "done" /\ FrameOf(unmatchedOpens, b) # {})
               => b.endLine = -1)

\* The inner block was closed and has the closer's line; the outer block is
\* reported open and has no end line.
C34_Witness ==
  /\ pc = "done"
  /\ Len(text) = 3
  /\ Len(blocks) = 2
  /\ blocks[1].endLine = -1
  /\ blocks[2].endLine = 2
  /\ FrameOf(unmatchedOpens, blocks[1]) # {}

-----------------------------------------------------------------------------
(* C35: the usage set and the unused-variable warning.                     *)

\* "Log"('#x');
LineRefInString == <<"\"", "Log", "\"", "(", "'", "#", "x", "'", ")", ";">>

\* Declarations of x in two blocks, and references to x in code, in a string
\* literal and after a string literal that holds a comment opener.
UsageLines ==
  {Named("FUNCTION_BLOCK", "A"), Named("FUNCTION_BLOCK", "B"),
   <<"END_FUNCTION_BLOCK">>, <<"VAR">>, <<"BEGIN">>, LineDeclX, LineUseX,
   LineRefInString, LineOpenerInString("'")}

MaxUsageLines == 5

NextUsage ==
  \/ \E raw \in UsageLines : Len(text) < MaxUsageLines /\ ScanLine(raw)
  \/ EndOfInput

SpecUsage == Init /\ [][NextUsage]_vars

\* The names of the references #name of the line from position i, read in the
\* given mode, that stand outside comments: in code or in a string literal.
RECURSIVE RefsOutsideComments(_, _, _)
RefsOutsideComments(line, i, mode) ==
  IF i > Len(line) \/ mode = "line" THEN {}
  ELSE LET t == line[i]
           here == IF t = "#" /\ i < Len(line) /\ IsIdentifier(line[i + 1])
                   THEN {ToLowerCase(line[i + 1])} ELSE {}
       IN IF mode = "block"
          THEN RefsOutsideComments(line, i + 1,
                                   IF t = "*)" THEN "code" ELSE mode)
          ELSE IF mode # "code"
          THEN here \cup RefsOutsideComments(line, i + 1,
                                             IF t = mode THEN "code" ELSE mode)
          ELSE IF t = "(*" THEN RefsOutsideComments(line, i + 1, "block")
          ELSE IF t = "//" THEN {}
          ELSE IF t \in {"'", "\""}
          THEN RefsOutsideComments(line, i + 1, t)
          ELSE here \cup RefsOutsideComments(line, i + 1, mode)

\* The names referenced on the non-comment lines of the text.
ReferencedNames(txt) ==
  UNION {RefsOutsideComments(txt[i], 1, ModeAt(txt, i)) : i \in 1..Len(txt)}

\* C35: a reference #x on any non-comment line of the document, in any block,
\* before or after BEGIN, also inside a string literal, suppresses the SCL101
\* warning of every declared variable named x ignoring case, in every block.
C35_ReferenceAnywhereSuppressesUnused ==
  pc = "done" =>
    \A v \in ToSet(variables) :
      ToLowerCase(v.name) \in ReferencedNames(text)
        => DiagCount("SCL101", v.line) = 0

-----------------------------------------------------------------------------
(* C36: every change is linted in the end.                                 *)

\* The timeouts setTimeout can hold.
Timers == [id : TimerIds, uri : URIs]

\* The SCL documents of the workspace.
SclURIs == {uri \in URIs : languageId(uri) = "scl"}

\* The events of the SCL documents.
NextDebounce ==
  \/ \E uri \in SclURIs, txt \in Texts : Open(uri, txt)
  \/ \E uri \in SclURIs : Save(uri)
  \/ \E uri \in SclURIs, txt \in Texts : Change(uri, txt)
  \/ \E uri \in SclURIs : Close(uri)
  \/ \E t \in timeouts : Timeout(t)

\* The runtime calls the callback of every timeout that stays pending.
SpecLinterFair ==
  InitLinter /\ [][NextDebounce]_vars /\ \A t \in Timers : WF_vars(Timeout(t))

\* The open document uri has changes that no lintDocument call has seen.
Unlinted(uri) == documents[uri].isOpen /\ changesSinceLint[uri] > 0

\* lintDocument has run after the last change of the document uri, and what is
\* published is the result for the text the document has now.
LintedCurrent(uri) ==
  /\ documents[uri].isOpen
  /\ changesSinceLint[uri] = 0
  /\ diagnosticCollection[uri] = Published(documents[uri].text)

\* C36: when the runtime fires every timeout that stays pending, a change of
\* an open SCL document is followed by a lintDocument call that publishes the
\* diagnostics of a text at least as new as the change, unless the document is
\* closed first or change events of the document keep arriving forever.
C36_ChangeIsLintedInTheEnd ==
  \A uri \in SclURIs :
    \/ []<>(event[1] = "change" /\ event[2] = uri)
    \/ [](Unlinted(uri) => <>(LintedCurrent(uri) \/ ~documents[uri].isOpen))

\* The timeout of a changed document has fired and published the diagnostics
\* of the changed text, while the other document was not touched.
C36_Witness ==
  /\ event = <<"timeout", "b.scl", 1>>
  /\ LintedCurrent("b.scl")
  /\ documents["b.scl"].text = <<<<"END_VAR">>>>
  /\ ~documents["a.scl"].isOpen

-----------------------------------------------------------------------------
(* C37: the quick fixes and the diagnostics they target.                   *)

\* The text after the editor applied the first n edits of a WorkspaceEdit,
\* the last of them first: an insert at the start of a line puts its lines
\* before that line, a replace puts its text in place of the tokens of its
\* range.
RECURSIVE ApplyEdits(_, _, _)
ApplyEdits(lines, edit, n) ==
  IF n = 0 THEN lines
  ELSE LET e == edit[n]
           at == IF e.line < Len(lines) THEN e.line ELSE Len(lines)
           l == lines[e.line + 1]
       IN ApplyEdits(
            IF e.kind = "insert"
            THEN SubSeq(lines, 1, at) \o e.newText
                 \o SubSeq(lines, at + 1, Len(lines))
            ELSE [lines EXCEPT ![e.line + 1] =
                    SubSeq(l, 1, e.col - 1) \o e.newText[1]
                    \o SubSeq(l, e.endCol + 1, Len(l))],
            edit, n - 1)

\* The text after the edit of a code action.
Applied(lines, action) == ApplyEdits(lines, action.edit, Len(action.edit))

\* The line index a line of the text has after the edit of the action.
LineAfter(action, line) ==
  LET e == action.edit[1]
  IN IF Len(action.edit) > 0 /\ e.kind = "insert" /\ e.line <= line
     THEN line + Len(e.newText) ELSE line

\* C37: for every SCL102, SCL103, SCL104 or SCL201 diagnostic of a document,
\* the text with the edit of its quick fix applied, linted again, has no
\* diagnostic of the same code for the same block or the same CASE statement.
C37_QuickFixRemovesItsDiagnostic ==
  reply # <<>> =>
    \A k \in 1..Len(reply[2]) :
      LET action == reply[2][k]
          diag == action.diagnostics[1]
          again == runRules(parse(Applied(documents["a.scl"].text, action)))
      IN \A j \in 1..Len(again) :
           ~(/\ again[j].code = diag.code
             /\ again[j].line = LineAfter(action, diag.range.line))

-----------------------------------------------------------------------------
(* C38: the indent level of formatScl and the number of lines it emits.    *)

LineIndentedEndIf == <<" ", " ", "END_IF", ";">>

LevelLines ==
  {<<>>, LineIfThen, <<"ELSE">>, LineIndentedEndIf, <<"END_VAR">>,
   LineCommentStart, LineCommentEnd, LinePragma, LineSlashes}

MaxLevelLines == 4

InitLevel ==
  \E txt \in TextsOver(LevelLines, MaxLevelLines) : Activate(OneDocument(txt))

NextLevel == FormatDocument("a.scl")

SpecLevel == InitLevel /\ [][NextLevel]_vars

\* The locals of formatScl when the loop comes to line i of txt.
LocalsAt(txt, i) == FormatFrom(FormatStart, SubSeq(txt, 1, i - 1), 1)

\* Line i of txt is a closer line that the loop takes as code while the
\* indent level is 0.
CloserAtLevelZero(txt, i) ==
  /\ txt[i] \in {LineIndentedEndIf, <<"END_VAR">>}
  /\ ~LocalsAt(txt, i).inBlockComment
  /\ LocalsAt(txt, i).indentLevel = 0

\* C38: in formatScl the indent level is never negative; a closer line that
\* arrives at level 0 is emitted at column 0 and leaves the level at 0; and
\* the formatted text has as many lines as the input.
C38_LevelNeverNegativeOneLinePerLine ==
  LET txt == documents["a.scl"].text
  IN reply # <<>>
     => /\ Len(reply[2]) = Len(txt)
        /\ \A i \in 1..Len(txt) :
             /\ Len(LocalsAt(txt, i + 1).result) = i
             /\ LocalsAt(txt, i + 1).indentLevel >= 0
             /\ CloserAtLevelZero(txt, i)
                  => /\ Indentation(reply[2][i]) = 0
                     /\ reply[2][i] = Trim(txt[i])
                     /\ LocalsAt(txt, i + 1).indentLevel = 0

\* A formatted text with an indented END_IF; that arrived at level 0 after a
\* comment and a line that raised and one that lowered the level.
C38_Witness ==
  /\ reply # <<>>
  /\ documents["a.scl"].text
       = <<LineIfThen, <<"END_VAR">>, LineIndentedEndIf, LineCommentStart>>
  /\ CloserAtLevelZero(documents["a.scl"].text, 3)
  /\ reply[2][3] = <<"END_IF", ";">>

====
